---- MODULE Spec2Model ----
(***************************************************************************)
(* A model of kubetools-client:                                            *)
(*   - the `remove` command of cli/deploy.py (guarded bulk deletion),      *)
(*   - get_containers_status of dev/docker_util.py (status aggregation),   *)
(*   - run_process / _run_process_with_spinner of dev/docker_util.py       *)
(*     (the process runner with its reader thread).                        *)
(*   - the `deploy` command of cli/deploy.py (dry run or deploy/upgrade),  *)
(*   - the `up` and `test` commands of dev/environment.py,                 *)
(*   - get_settings of settings.py (the memoized settings).                *)
(* Each part has its own specification (SpecRemove, SpecStatus, SpecRun,   *)
(* SpecDeploy, SpecDev, SpecSettings) over the module's variables; the     *)
(* variables of the other parts are left at their idle values.             *)
(***************************************************************************)
EXTENDS Integers, Sequences, FiniteSets, TLC

VARIABLES
    \* ---- remove (cli/deploy.py) ----
    rm_pc,                  \* position in remove()
    remove_all,             \* --all
    yes,                    \* --yes
    app_names,              \* the tuple of requested app names
    live,                   \* what list_services/list_deployments/list_jobs return
    services_to_delete,
    deployments_to_delete,
    jobs_to_delete,
    rm_error,               \* the exception remove() ended with, or NoError
    api_calls,              \* the calls made to the cluster, in order
    del_i,                  \* position of the running _delete_objects loop
    answer,                 \* what click.confirm returned ("unasked" before)
    \* ---- get_containers_status (dev/docker_util.py) ----
    st_pc,                  \* position in get_containers_status()
    kubetools_config,       \* name (dockerised), env and the declared containers
    container_name,         \* the container_name argument (NoName for None)
    all_environments,
    docker_world,           \* every container the Docker daemon holds
    docker_containers,      \* what docker_client.containers.list returned
    st_i,                   \* the loop over docker_containers
    env_to_containers,
    st_result,              \* the returned map
    st_error,               \* the exception raised, or NoError
    \* ---- run_process (dev/docker_util.py) ----
    rp_pc,                  \* position of the main flow in run_process()
    capture_output,         \* the capture_output argument: "None", "True", "False"
    debug,                  \* settings.debug
    rp_env,                 \* the env argument: "None" or "overrides"
    capturing_output,
    child_state,            \* the child process: "none", "running", "exited"
    child_env,              \* the environment the child was started with
    child_stdout_open,      \* the child holds the write end of its stdout
    to_write,               \* the lines the child has still to write
    written,                \* the lines the child has written, in order
    exit_code,              \* the exit status of the exited child
    pipe,                   \* lines written to the pipe and not yet read
    reader_alive,           \* command_reader.is_alive()
    output_lines,           \* the buffer the reader thread appends to
    previous_status,        \* the status wait_with_spinner hands to check_status
    iterations,             \* the checks wait_with_spinner has made
    returncode,             \* command.returncode: <<>> for None, <<code>>
    child_calls,            \* the terminate/kill calls made on the child
    rp_stdout,              \* the local stdout of run_process
    rp_outcome,             \* how run_process ended
    \* ---- deploy (cli/deploy.py) ----
    dp_pc,                  \* position in deploy()
    dry,                    \* --dry
    all_objects,            \* all_services, all_deployments, all_jobs
    observed,               \* the objects the cluster held when deploy started
    cluster,                \* the objects the cluster holds
    cluster_calls,          \* the create/update calls submitted, in order
    dp_t,                   \* the object type a deploy loop is at (1..3)
    dp_i,                   \* the object of that type it is at
    prompted,               \* the object types click.prompt was shown for
    printed,                \* the objects click.echo printed
    dp_error,               \* the exception deploy() ended with, or NoError
    \* ---- up, test (dev/environment.py) ----
    ev_pc,                  \* position in up() / test()
    ev_command,             \* the command run: "up" or "test"
    dev_config,             \* the kubetools_config dict the commands are given
    named_containers,       \* the containers argument of up
    no_upgrade,             \* --no-upgrade
    is_testing,             \* up's is_testing argument
    keep_containers,        \* --keep-containers
    upgrade_containers,
    ev_i,                   \* position of the running upgrade / test loop
    dev_calls,              \* the container_util calls made, in order
    ev_failed,              \* an exception left test's try block
    ev_error,               \* the exception the command ended with, or NoError
    \* ---- get_settings (settings.py) ----
    gs_pc,                  \* the process: "running", or "raised" by a call
    settings_file,          \* kubetools.conf: "absent", "valid", "no_section"
    cache,                  \* memoized.cache of get_settings
    constructed,            \* the KubetoolsSettings objects constructed so far
    gs_calls                \* the calls made: the debug argument and the result

rm_vars == <<rm_pc, remove_all, yes, app_names, live, services_to_delete,
             deployments_to_delete, jobs_to_delete, rm_error, api_calls,
             del_i, answer>>

st_vars == <<st_pc, kubetools_config, container_name, all_environments,
             docker_world, docker_containers, st_i, env_to_containers,
             st_result, st_error>>

rp_vars == <<rp_pc, capture_output, debug, rp_env, capturing_output, child_state,
             child_env, child_stdout_open, to_write, written, exit_code, pipe,
             reader_alive, output_lines, previous_status, iterations,
             returncode, child_calls, rp_stdout, rp_outcome>>

dp_vars == <<dp_pc, dry, all_objects, observed, cluster, cluster_calls, dp_t,
             dp_i, prompted, printed, dp_error>>

ev_vars == <<ev_pc, ev_command, dev_config, named_containers, no_upgrade,
             is_testing, keep_containers, upgrade_containers, ev_i, dev_calls,
             ev_failed, ev_error>>

gs_vars == <<gs_pc, settings_file, cache, constructed, gs_calls>>

vars == <<rm_vars, st_vars, rp_vars, dp_vars, ev_vars, gs_vars>>

\* What the actions of one part leave alone: the variables of the others.
not_remove == <<st_vars, rp_vars, dp_vars, ev_vars, gs_vars>>

not_status == <<rm_vars, rp_vars, dp_vars, ev_vars, gs_vars>>

not_run == <<rm_vars, st_vars, dp_vars, ev_vars, gs_vars>>

not_deploy == <<rm_vars, st_vars, rp_vars, ev_vars, gs_vars>>

not_dev == <<rm_vars, st_vars, rp_vars, dp_vars, gs_vars>>

not_settings == <<rm_vars, st_vars, rp_vars, dp_vars, ev_vars>>

\* ---------------------------------------------------------------- bounds
\* The most live objects the cluster holds over the three object types.
MaxObjects == 3
\* The most app names given on the command line.
MaxNames == 2
\* The most containers the Docker daemon holds.
MaxContainers == 2
\* The most containers the kubetools configuration declares.
MaxDeclared == 2
\* The most lines a child process writes.
MaxLines == 2
\* The checks wait_with_spinner makes before it gives up (WAIT_MAX_SLEEPS
\* in the settings, scaled down).
MaxIterations == 3
\* The most objects generated for one deploy over the three object types.
MaxGenerated == 3
\* The most objects the cluster holds when deploy starts.
MaxObserved == 2
\* The most objects printed in one dry run.
MaxPrints == 2
\* The most upgrades the kubetools configuration holds.
MaxUpgrades == 2
\* The most tests the kubetools configuration holds.
MaxTests == 2
\* The most calls of get_settings in one process.
MaxCalls == 3

\* ---------------------------------------------------------------- helpers
Range(s) == {s[i] : i \in 1..Len(s)}

SeqsUpTo(S, n) == UNION {[1..k -> S] : k \in 0..n}

\* A Python dict as a function: the empty dict, d[k] = v, d.get(k, default).
EmptyDict == [k \in {} |-> k]

Put(d, k, v) == [x \in (DOMAIN d) \cup {k} |-> IF x = k THEN v ELSE d[x]]

Get(d, k, default) == IF k \in DOMAIN d THEN d[k] ELSE default

\* A Python str as a sequence of one-character strings.
StartsWith(s, prefix) ==
    /\ Len(s) >= Len(prefix)
    /\ SubSeq(s, 1, Len(prefix)) = prefix

\* s.replace(old, ''): every occurrence of old removed, left to right.
RECURSIVE Remove(_, _)
Remove(s, old) ==
    IF s = <<>> THEN <<>>
    ELSE IF StartsWith(s, old) THEN Remove(SubSeq(s, Len(old) + 1, Len(s)), old)
    ELSE <<Head(s)>> \o Remove(Tail(s), old)

\* s.split(sep) for a one-character sep: the list of segments.
RECURSIVE Split(_, _)
Split(s, sep) ==
    IF \A i \in 1..Len(s) : s[i] # sep THEN <<s>>
    ELSE LET k == CHOOSE i \in 1..Len(s) :
                      s[i] = sep /\ \A j \in 1..(i - 1) : s[j] # sep
         IN  <<SubSeq(s, 1, k - 1)>> \o Split(SubSeq(s, k + 1, Len(s)), sep)

\* ------------------------------------- get_containers_status: the data
NoName == <<>>

\* get_containers_status is not running.
StatusIdle ==
    /\ st_pc = "idle"
    /\ kubetools_config = EmptyDict
    /\ container_name = NoName
    /\ all_environments = FALSE
    /\ docker_world = <<>>
    /\ docker_containers = <<>>
    /\ st_i = 1
    /\ env_to_containers = EmptyDict
    /\ st_result = EmptyDict
    /\ st_error = [exc |-> "none"]

\* ------------------------------------------------- run_process: the data
\* Python's None where a str is expected (a status, stdout).
None == <<"None">>

\* run_process is not running.
RunIdle ==
    /\ rp_pc = "idle"
    /\ capture_output = "None"
    /\ debug = 0
    /\ rp_env = "None"
    /\ capturing_output = FALSE
    /\ child_state = "none"
    /\ child_env = "none"
    /\ child_stdout_open = FALSE
    /\ to_write = <<>>
    /\ exit_code = 0
    /\ written = <<>>
    /\ pipe = <<>>
    /\ reader_alive = FALSE
    /\ output_lines = <<>>
    /\ previous_status = None
    /\ iterations = 0
    /\ returncode = <<>>
    /\ child_calls = <<>>
    /\ rp_stdout = None
    /\ rp_outcome = [how |-> "running"]

\* ------------------------------------------------- get_settings: the data
\* get_settings is not called.
SettingsIdle ==
    /\ gs_pc = "idle"
    /\ settings_file = "absent"
    /\ cache = EmptyDict
    /\ constructed = 0
    /\ gs_calls = <<>>

\* ------------------------------------------------- up, test: the data
\* Neither up nor test is running.
DevIdle ==
    /\ ev_pc = "idle"
    /\ ev_command = "none"
    /\ dev_config = EmptyDict
    /\ named_containers = {}
    /\ no_upgrade = FALSE
    /\ is_testing = FALSE
    /\ keep_containers = FALSE
    /\ upgrade_containers = {}
    /\ ev_i = 1
    /\ dev_calls = <<>>
    /\ ev_failed = FALSE
    /\ ev_error = [exc |-> "none"]

\* ------------------------------------------------- deploy: the data
\* deploy is not running.
DeployIdle ==
    /\ dp_pc = "idle"
    /\ dry = FALSE
    /\ all_objects = [Services |-> <<>>, Deployments |-> <<>>, Jobs |-> <<>>]
    /\ observed = {}
    /\ cluster = {}
    /\ cluster_calls = <<>>
    /\ dp_t = 1
    /\ dp_i = 1
    /\ prompted = <<>>
    /\ printed = <<>>
    /\ dp_error = [exc |-> "none"]

\* ------------------------------------------------- remove: the data
AppNames == {"web", "api"}

\* labels.get('kubetools/name') of an object without that label (None)
NoLabel == "None"

Labels == AppNames \cup {NoLabel}

ObjectTypes == <<"Services", "Deployments", "Jobs">>

NoError == [exc |-> "none"]

\* A live object: metadata.name and metadata.labels.get('kubetools/name').
Objects(object_type, labels) ==
    [i \in 1..Len(labels) |-> [name |-> <<object_type, i>>, label |-> labels[i]]]

\* obj.metadata.labels.get('kubetools/name') in app_names
LabelInAppNames(obj, names) == obj.label \in Range(names)

\* _get_objects_to_delete with the leftover check made only when nothing at
\* all matched.
GetObjectsToDeleteNoneMatched(object_type, objects, all, names, check_leftovers) ==
    LET objects_to_delete ==
            IF all THEN objects
            ELSE SelectSeq(objects, LAMBDA obj : LabelInAppNames(obj, names))
    IN  IF ~all /\ check_leftovers /\ objects_to_delete = <<>>
        THEN [raised |-> TRUE, leftover |-> Range(names),
              objects_to_delete |-> <<>>]
        ELSE [raised |-> FALSE, leftover |-> {},
              objects_to_delete |-> objects_to_delete]

\* _get_objects_to_delete that, with remove_all set, keeps only the objects
\* carrying a 'kubetools/name' label.
GetObjectsToDeleteLabelledOnly(object_type, objects, all, names, check_leftovers) ==
    LET objects_to_delete ==
            IF all THEN SelectSeq(objects, LAMBDA obj : obj.label # NoLabel)
            ELSE SelectSeq(objects, LAMBDA obj : LabelInAppNames(obj, names))
        object_names_to_delete == {obj.label : obj \in Range(objects_to_delete)}
        leftover_app_names == Range(names) \ object_names_to_delete
    IN  IF ~all /\ check_leftovers /\ leftover_app_names # {}
        THEN [raised |-> TRUE, leftover |-> leftover_app_names,
              objects_to_delete |-> <<>>]
        ELSE [raised |-> FALSE, leftover |-> {},
              objects_to_delete |-> objects_to_delete]

\* _get_objects_to_delete: what it returns, or the BadParameter it raises
\* (with the leftover app names its message shows).
GetObjectsToDelete(object_type, objects, all, names, check_leftovers) ==
    LET objects_to_delete ==
            IF all THEN objects
            ELSE SelectSeq(objects, LAMBDA obj : LabelInAppNames(obj, names))
        object_names_to_delete == {obj.label : obj \in Range(objects_to_delete)}
        leftover_app_names == Range(names) \ object_names_to_delete
    IN  IF ~all /\ check_leftovers /\ leftover_app_names # {}
        THEN [raised |-> TRUE, leftover |-> leftover_app_names,
              objects_to_delete |-> <<>>]
        ELSE [raised |-> FALSE, leftover |-> {},
              objects_to_delete |-> objects_to_delete]

\* click.BadParameter: the message, and for 'X not found {names}' the object
\* type and the set of names it shows.
BadParameter(message, object_type, names) ==
    [exc |-> "BadParameter", message |-> message, object_type |-> object_type,
     names |-> names]

ApiException == [exc |-> "ApiException"]

Abort == [exc |-> "Abort"]

\* ------------------------------------------------- remove: the command
\* remove is not running.
RemoveIdle ==
    /\ rm_pc = "idle"
    /\ remove_all = FALSE
    /\ yes = FALSE
    /\ app_names = <<>>
    /\ live = [Services |-> <<>>, Deployments |-> <<>>, Jobs |-> <<>>]
    /\ services_to_delete = <<>>
    /\ deployments_to_delete = <<>>
    /\ jobs_to_delete = <<>>
    /\ rm_error = NoError
    /\ api_calls = <<>>
    /\ del_i = 1
    /\ answer = "unasked"

RemoveInit ==
    /\ rm_pc = "start"
    /\ remove_all \in BOOLEAN
    /\ yes \in BOOLEAN
    /\ app_names \in SeqsUpTo(AppNames, MaxNames)
    /\ \E s \in SeqsUpTo(Labels, MaxObjects) :
         \E d \in SeqsUpTo(Labels, MaxObjects - Len(s)) :
           \E j \in SeqsUpTo(Labels, MaxObjects - Len(s) - Len(d)) :
             live = [Services |-> Objects("Services", s),
                     Deployments |-> Objects("Deployments", d),
                     Jobs |-> Objects("Jobs", j)]
    /\ services_to_delete = <<>>
    /\ deployments_to_delete = <<>>
    /\ jobs_to_delete = <<>>
    /\ rm_error = NoError
    /\ api_calls = <<>>
    /\ del_i = 1
    /\ answer = "unasked"

\* The argument check with the second test left out: app names together
\* with --all are let through.
CheckArgumentsNeitherOnly ==
    /\ rm_pc = "start"
    /\ UNCHANGED not_remove
    /\ IF app_names = <<>> /\ ~remove_all
       THEN /\ rm_error' = BadParameter("Must either provide app names or --all flag!", "", {})
            /\ rm_pc' = "raised"
       ELSE /\ rm_pc' = "list_services"
            /\ UNCHANGED rm_error
    /\ UNCHANGED <<remove_all, yes, app_names, live, services_to_delete,
                   deployments_to_delete, jobs_to_delete, api_calls, del_i, answer>>

\* deploy.py 228-231: exactly one of app names and --all.
CheckArguments ==
    /\ rm_pc = "start"
    /\ UNCHANGED not_remove
    /\ IF app_names = <<>> /\ ~remove_all
       THEN /\ rm_error' = BadParameter("Must either provide app names or --all flag!", "", {})
            /\ rm_pc' = "raised"
       ELSE IF app_names # <<>> /\ remove_all
       THEN /\ rm_error' = BadParameter("Cannot provide both app naems and --all flag!", "", {})
            /\ rm_pc' = "raised"
       ELSE /\ rm_pc' = "list_services"
            /\ UNCHANGED rm_error
    /\ UNCHANGED <<remove_all, yes, app_names, live, services_to_delete,
                   deployments_to_delete, jobs_to_delete, api_calls, del_i, answer>>

\* One call of _get_objects_to_delete from remove(): the list call, the
\* filter and the leftover check. The list call itself may fail.
ListObjects(object_type, at, next, check_leftovers) ==
    /\ rm_pc = at
    /\ UNCHANGED not_remove
    /\ api_calls' = Append(api_calls, [call |-> "list", object_type |-> object_type])
    /\ \E listed \in BOOLEAN :
         IF ~listed
         THEN /\ rm_error' = ApiException
              /\ rm_pc' = "raised"
              /\ UNCHANGED <<services_to_delete, deployments_to_delete, jobs_to_delete>>
         ELSE LET r == GetObjectsToDelete(object_type, live[object_type],
                                          remove_all, app_names, check_leftovers)
              IN  IF r.raised
                  THEN /\ rm_error' = BadParameter("not found", object_type, r.leftover)
                       /\ rm_pc' = "raised"
                       /\ UNCHANGED <<services_to_delete, deployments_to_delete,
                                      jobs_to_delete>>
                  ELSE /\ rm_pc' = next
                       /\ UNCHANGED rm_error
                       /\ services_to_delete' =
                            IF object_type = "Services" THEN r.objects_to_delete
                            ELSE services_to_delete
                       /\ deployments_to_delete' =
                            IF object_type = "Deployments" THEN r.objects_to_delete
                            ELSE deployments_to_delete
                       /\ jobs_to_delete' =
                            IF object_type = "Jobs" THEN r.objects_to_delete
                            ELSE jobs_to_delete
    /\ UNCHANGED <<remove_all, yes, app_names, live, del_i, answer>>

\* The services deleted as soon as they are listed, before the deployments
\* and jobs are listed.
ListServicesThenDelete == ListObjects("Services", "list_services", "delete_services", TRUE)

\* deploy.py 238-241
ListServices == ListObjects("Services", "list_services", "list_deployments", TRUE)

\* deploy.py 243-246
ListDeployments == ListObjects("Deployments", "list_deployments", "list_jobs", TRUE)

\* The jobs listed with the leftover check that services and deployments get.
ListJobsCheckingLeftovers == ListObjects("Jobs", "list_jobs", "check_any", TRUE)

\* deploy.py 248-252
ListJobs == ListObjects("Jobs", "list_jobs", "check_any", FALSE)

\* deploy.py 254-256: nothing matched, nothing to do.
CheckAny ==
    /\ rm_pc = "check_any"
    /\ UNCHANGED not_remove
    /\ rm_pc' = IF services_to_delete = <<>> /\ deployments_to_delete = <<>>
                   /\ jobs_to_delete = <<>>
                THEN "done"
                ELSE "confirm"
    /\ UNCHANGED <<remove_all, yes, app_names, live, services_to_delete,
                   deployments_to_delete, jobs_to_delete, rm_error, api_calls,
                   del_i, answer>>

\* What the user can do at the click.confirm prompt: answer yes, answer no
\* (confirm returns False), or close the input (click raises Abort).
Answers == {"y", "n", "abort"}

\* After the prompt: the pc the command goes on at. click.confirm is called
\* without abort=True and its return value is not looked at.
AfterConfirm(a) == IF a = "abort" THEN "raised" ELSE "delete_services"

\* deploy.py 258-261
Confirm ==
    /\ rm_pc = "confirm"
    /\ UNCHANGED not_remove
    /\ IF yes
       THEN /\ rm_pc' = "delete_services"
            /\ UNCHANGED <<answer, rm_error>>
       ELSE \E a \in Answers :
              /\ answer' = a
              /\ rm_pc' = AfterConfirm(a)
              /\ rm_error' = IF AfterConfirm(a) = "raised"
                             THEN Abort ELSE rm_error
    /\ del_i' = 1
    /\ UNCHANGED <<remove_all, yes, app_names, live, services_to_delete,
                   deployments_to_delete, jobs_to_delete, api_calls>>

\* A _delete_objects loop that notes a failed delete call and goes on with
\* the next candidate.
DeleteObjectsContinuing(object_type, at, next, objects_to_delete) ==
    /\ rm_pc = at
    /\ UNCHANGED not_remove
    /\ IF del_i > Len(objects_to_delete)
       THEN /\ rm_pc' = next
            /\ del_i' = 1
            /\ UNCHANGED <<api_calls, rm_error>>
       ELSE /\ api_calls' = Append(api_calls,
                                   [call |-> "delete", object_type |-> object_type,
                                    obj |-> objects_to_delete[del_i]])
            /\ del_i' = del_i + 1
            /\ \E deleted \in BOOLEAN :
                 rm_error' = IF deleted THEN rm_error ELSE ApiException
            /\ UNCHANGED rm_pc
    /\ UNCHANGED <<remove_all, yes, app_names, live, services_to_delete,
                   deployments_to_delete, jobs_to_delete, answer>>

\* One iteration of a _delete_objects loop (or its end): the delete call is
\* made, and either returns or raises.
DeleteObjects(object_type, at, next, objects_to_delete) ==
    /\ rm_pc = at
    /\ UNCHANGED not_remove
    /\ IF del_i > Len(objects_to_delete)
       THEN /\ rm_pc' = next
            /\ del_i' = 1
            /\ UNCHANGED <<api_calls, rm_error>>
       ELSE /\ api_calls' = Append(api_calls,
                                   [call |-> "delete", object_type |-> object_type,
                                    obj |-> objects_to_delete[del_i]])
            /\ \E deleted \in BOOLEAN :
                 IF deleted
                 THEN /\ del_i' = del_i + 1
                      /\ UNCHANGED <<rm_pc, rm_error>>
                 ELSE /\ rm_error' = ApiException
                      /\ rm_pc' = "raised"
                      /\ UNCHANGED del_i
    /\ UNCHANGED <<remove_all, yes, app_names, live, services_to_delete,
                   deployments_to_delete, jobs_to_delete, answer>>

\* deploy.py 263
DeleteServices ==
    DeleteObjects("Services", "delete_services", "delete_deployments", services_to_delete)

\* deploy.py 264
DeleteDeployments ==
    DeleteObjects("Deployments", "delete_deployments", "delete_jobs", deployments_to_delete)

\* deploy.py 265
DeleteJobs == DeleteObjects("Jobs", "delete_jobs", "done", jobs_to_delete)

RemoveNext ==
    \/ CheckArguments
    \/ ListServices
    \/ ListDeployments
    \/ ListJobs
    \/ CheckAny
    \/ Confirm
    \/ DeleteServices
    \/ DeleteDeployments
    \/ DeleteJobs

InitRemove ==
    RemoveInit /\ StatusIdle /\ RunIdle /\ DeployIdle /\ DevIdle /\ SettingsIdle

SpecRemove == InitRemove /\ [][RemoveNext]_vars

\* ------------------------------------------------- remove: the claims
\* The list calls are the first three calls, in this order.
ListIndex(object_type) ==
    CASE object_type = "Services" -> 1
      [] object_type = "Deployments" -> 2
      [] object_type = "Jobs" -> 3

\* The cluster answered the list call of this type.
ListAnswered(object_type) ==
    /\ Len(api_calls) >= ListIndex(object_type)
    /\ ~(Len(api_calls) = ListIndex(object_type) /\ rm_error = ApiException)

\* _get_objects_to_delete raised its validation error for this type.
RaisedValidation(object_type) ==
    /\ ListAnswered(object_type)
    /\ Len(api_calls) = ListIndex(object_type)
    /\ rm_pc = "raised"

\* _get_objects_to_delete returned for this type.
Returned(object_type) ==
    /\ ListAnswered(object_type)
    /\ ~RaisedValidation(object_type)

ToDelete(object_type) ==
    CASE object_type = "Services" -> services_to_delete
      [] object_type = "Deployments" -> deployments_to_delete
      [] object_type = "Jobs" -> jobs_to_delete

\* The live objects of a type whose 'kubetools/name' label is requested.
Matched(object_type) ==
    {i \in 1..Len(live[object_type]) : live[object_type][i].label \in Range(app_names)}

\* set(app_names) minus the labels of the matched live objects.
Unmatched(object_type) ==
    Range(app_names) \ {live[object_type][i].label : i \in Matched(object_type)}

Deletes == {i \in 1..Len(api_calls) : api_calls[i].call = "delete"}

\* C1: _get_objects_to_delete with remove_all false and check_leftovers true
\* (the services and deployments calls of remove) raises a validation error
\* iff set(app_names) minus the labels of the matched live objects is not
\* empty, the error names exactly that set, and otherwise it returns exactly
\* the live objects whose label is in app_names.
C1_LeftoverCheck ==
    \A t \in {"Services", "Deployments"} :
        ~remove_all =>
            /\ RaisedValidation(t) =>
                    /\ Unmatched(t) # {}
                    /\ rm_error.exc = "BadParameter"
                    /\ rm_error.object_type = t
                    /\ rm_error.names = Unmatched(t)
            /\ Returned(t) =>
                    /\ Unmatched(t) = {}
                    /\ Len(ToDelete(t)) = Cardinality(Matched(t))
                    /\ \A i \in 1..Len(live[t]) :
                         (i \in Matched(t)) <=> (live[t][i] \in Range(ToDelete(t)))

\* C1 witness: the deployments call raised, naming one of two requested
\* names, after the services call returned both names' services.
C1_Witness ==
    /\ ~remove_all
    /\ Range(app_names) = {"web", "api"}
    /\ Returned("Services")
    /\ Len(services_to_delete) = 2
    /\ RaisedValidation("Deployments")
    /\ rm_error.names = {"api"}

\* C2: no delete call is issued before the three listings have returned
\* without a validation error; a requested name unmatched among the live
\* services or deployments ends the command with a validation error and no
\* object deleted.
C2_NoDeleteBeforeListings ==
    /\ Deletes # {} =>
            /\ \A t \in {"Services", "Deployments", "Jobs"} : Returned(t)
            /\ \A i \in Deletes : i > 3
            /\ \A t \in {"Services", "Deployments", "Jobs"} :
                 api_calls[ListIndex(t)] = [call |-> "list", object_type |-> t]
    /\ \A t \in {"Services", "Deployments"} :
         (~remove_all /\ Unmatched(t) # {} /\ ListAnswered(t)) =>
            /\ Deletes = {}
            /\ rm_pc = "raised"
            /\ rm_error.exc = "BadParameter"

\* C2 witness: 'web' requested, only an 'api' service live: the command has
\* ended with the validation error after its first list call.
C2_Witness ==
    /\ app_names = <<"web">>
    /\ ~remove_all
    /\ Len(live.Services) = 1
    /\ live.Services[1].label = "api"
    /\ rm_pc = "raised"
    /\ rm_error.exc = "BadParameter"
    /\ rm_error.names = {"web"}
    /\ Len(api_calls) = 1

\* C3: app names together with --all, or neither, is rejected with a
\* validation error before any list or delete call; listing is reached only
\* with exactly one of the two.
C3_MutualExclusion ==
    LET given == app_names # <<>>
    IN  /\ (given <=> remove_all) =>
            /\ api_calls = <<>>
            /\ rm_pc \in {"start", "raised"}
            /\ rm_pc = "raised" => rm_error.exc = "BadParameter"
        /\ (given <=> ~remove_all) =>
            /\ rm_pc # "start" => (rm_pc = "list_services" \/ api_calls # <<>>)
            /\ rm_error.exc = "BadParameter" => rm_error.message = "not found"

\* C3 witness: both app names and --all given, and the command rejected.
C3_Witness ==
    /\ app_names # <<>>
    /\ remove_all
    /\ live.Services # <<>>
    /\ rm_pc = "raised"
    /\ rm_error.message = "Cannot provide both app naems and --all flag!"

\* C4: without --yes, objects are deleted only if the user answered yes to
\* the confirmation prompt, and a negative answer gives no delete call; with
\* --yes the prompt is skipped and the deletion proceeds.
C4_ConfirmationGuardsDeletion ==
    /\ (~yes /\ Deletes # {}) => answer = "y"
    /\ answer = "n" => Deletes = {}
    /\ yes => answer = "unasked"

\* C4: the state the claim excludes: the user answered no and an object
\* has been deleted.
C4_DeletedAfterNo ==
    /\ ~yes
    /\ answer = "n"
    /\ Deletes # {}

\* The delete calls issued so far, in order.
DeleteCalls == SelectSeq(api_calls, LAMBDA c : c.call = "delete")

\* The delete calls of one type for its candidates, in candidate order.
PlannedDeletes(object_type) ==
    [i \in 1..Len(ToDelete(object_type)) |->
        [call |-> "delete", object_type |-> object_type,
         obj |-> ToDelete(object_type)[i]]]

\* C13: the delete calls are issued candidate by candidate, services first,
\* then deployments, then jobs; a failed delete call ends the command at
\* once with that call as the last one, so no later candidate is deleted;
\* nothing is ever re-created, so what was deleted stays deleted.
C13_DeleteOrderStopsOnFailure ==
    LET planned == PlannedDeletes("Services") \o PlannedDeletes("Deployments")
                        \o PlannedDeletes("Jobs")
    IN  /\ Len(DeleteCalls) <= Len(planned)
        /\ DeleteCalls = SubSeq(planned, 1, Len(DeleteCalls))
        /\ (rm_error = ApiException /\ Deletes # {}) =>
                /\ rm_pc = "raised"
                /\ api_calls[Len(api_calls)].call = "delete"
        /\ (rm_pc = "done" /\ Deletes # {}) => DeleteCalls = planned
        /\ \A i \in 1..Len(api_calls) : api_calls[i].call \in {"list", "delete"}

\* C13 witness: a service was deleted, the delete of a deployment failed,
\* and the job candidate was never attempted.
C13_Witness ==
    /\ rm_pc = "raised"
    /\ rm_error = ApiException
    /\ Len(services_to_delete) = 1
    /\ Len(deployments_to_delete) = 1
    /\ Len(jobs_to_delete) = 1
    /\ Len(DeleteCalls) = 2
    /\ DeleteCalls[1].object_type = "Services"
    /\ DeleteCalls[2].object_type = "Deployments"

\* C15: with remove_all set, _get_objects_to_delete returns every listed
\* object of the type, labelled or not, and raises no validation error,
\* whatever the names and the check_leftovers flag; so in remove --all every
\* answered listing yields all the live objects of its type.
C15_RemoveAllReturnsAll ==
    \A t \in {"Services", "Deployments", "Jobs"} :
        /\ \A names \in SeqsUpTo(AppNames, MaxNames), check_leftovers \in BOOLEAN :
             LET r == GetObjectsToDelete(t, live[t], TRUE, names, check_leftovers)
             IN  /\ ~r.raised
                 /\ r.objects_to_delete = live[t]
        /\ (remove_all /\ app_names = <<>> /\ ListAnswered(t)) =>
             /\ ToDelete(t) = live[t]
             /\ rm_error.exc # "BadParameter"

\* C15 witness: remove --all listed the services, one of them without the
\* 'kubetools/name' label, and both are candidates.
C15_Witness ==
    /\ remove_all
    /\ app_names = <<>>
    /\ ListAnswered("Services")
    /\ Len(live.Services) = 2
    /\ live.Services[1].label = NoLabel
    /\ live.Services[2].label = "web"
    /\ services_to_delete = live.Services

\* C16: in remove with explicit names, the listing of the jobs never raises
\* the validation error, even when a requested name matches no live job,
\* and the job candidates are exactly the live jobs whose label is among the
\* requested names.
C16_NoLeftoverCheckForJobs ==
    (~remove_all /\ app_names # <<>>) =>
        /\ rm_error.exc = "BadParameter" => rm_error.object_type # "Jobs"
        /\ (Len(api_calls) >= 3 /\ rm_pc \notin {"list_jobs", "raised"}) =>
             jobs_to_delete =
                SelectSeq(live.Jobs, LAMBDA obj : obj.label \in Range(app_names))
        /\ (Len(api_calls) = 3 /\ rm_pc = "raised") =>
             rm_error \in {ApiException, Abort}

\* C16 witness: 'web' requested, a web service and a web deployment live,
\* the only live job labelled 'api': the listing of the jobs returned no
\* candidate and the command went on to delete.
C16_Witness ==
    /\ ~remove_all
    /\ app_names = <<"web">>
    /\ Len(live.Jobs) = 1
    /\ live.Jobs[1].label = "api"
    /\ Unmatched("Jobs") = {"web"}
    /\ jobs_to_delete = <<>>
    /\ rm_error = NoError
    /\ Len(DeleteCalls) = 2

\* ------------------------------------- get_containers_status: the data
\* dockerise_label(kubetools_config['name']): the project name "p".
DockerName == <<"p">>

\* kubetools_config['env']: "d" (dev) or "t" (test).
Envs == {<<"d">>, <<"t">>}

\* get_compose_name(kubetools_config): the compose project of an environment
\* is the project name followed by the environment.
GetComposeName(config) == config.name \o config.env

\* The (name, container) pairs get_all_containers(kubetools_config) yields;
\* a container dict may or may not hold the is_dependency / is_deployment keys.
DeclaredPool ==
    { [name |-> <<"w">>, container |-> [k \in {"is_deployment"} |-> TRUE]],
      [name |-> <<"w">>, container |-> EmptyDict],
      [name |-> <<"b">>, container |-> [k \in {"is_dependency"} |-> TRUE]] }

DeclaredContainers ==
    {d \in SeqsUpTo(DeclaredPool, MaxDeclared) :
        \A i, j \in 1..Len(d) : d[i].name = d[j].name => i = j}

\* A Docker container: id, name, status, labels and
\* attrs['NetworkSettings']['Ports'] (the port table in iteration order, each
\* local port with its host bindings; None and {} are both the empty table,
\* a binding of None or [] is the empty sequence). No env label: env = <<>>.
Container(id, name, status, project, env, oneoff, service, ports) ==
    [id |-> id, name |-> name, status |-> status, ports |-> ports,
     labels |->
        LET base == [k \in {"com.docker.compose.project",
                            "com.docker.compose.oneoff",
                            "com.docker.compose.service"} |->
                        CASE k = "com.docker.compose.project" -> project
                          [] k = "com.docker.compose.oneoff" -> oneoff
                          [] k = "com.docker.compose.service" -> service]
        IN  IF env = <<>> THEN base ELSE Put(base, "kubetools.project.env", env)]

ContainerPool ==
    { \* pd_w_1: created before the env label existed, running, 8000 -> 32000
      Container("c1", <<"p","d","_","w","_","1">>, "running", <<"p","d">>, <<>>,
                "False", <<"w">>,
                << [local |-> "8000/tcp", host |-> <<"32000">>] >>),
      \* pd_b_1: env label d, exited, no port table
      Container("c2", <<"p","d","_","b","_","1">>, "exited", <<"p","d">>, <<"d">>,
                "False", <<"b">>, <<>>),
      \* pd_w_2: a second container of w in env d
      Container("c3", <<"p","d","_","w","_","2">>, "running", <<"p","d">>, <<"d">>,
                "False", <<"w">>,
                << [local |-> "8000/tcp", host |-> <<"32001", "32002">>],
                   [local |-> "9000/tcp", host |-> <<>>] >>),
      \* pt_w_1: env t, a port without host binding
      Container("c4", <<"p","t","_","w","_","1">>, "running", <<"p","t">>, <<"t">>,
                "False", <<"w">>,
                << [local |-> "8000/tcp", host |-> <<>>] >>),
      \* qd_w_1: another project's container
      Container("c5", <<"q","d","_","w","_","1">>, "running", <<"q","d">>, <<>>,
                "False", <<"w">>, <<>>),
      \* pd_w_run_1: a one-off (docker-compose run) container
      Container("c6", <<"p","d","_","w","_","r","_","1">>, "exited", <<"p","d">>, <<"d">>,
                "True", <<"w">>, <<>>),
      \* p_w_1: compose project equal to the project name, no env label
      Container("c7", <<"p","_","w","_","1">>, "running", <<"p">>, <<>>,
                "False", <<"w">>, <<>>),
      \* ptp_b_1: the project name occurs again inside the compose project
      Container("c8", <<"p","t","p","_","b","_","1">>, "exited", <<"p","t","p">>, <<>>,
                "False", <<"b">>, <<>>),
      \* pd-w-1: a name without '_'
      Container("c9", <<"p","d","-","w","-","1">>, "running", <<"p","d">>, <<"d">>,
                "False", <<"w">>, <<>>) }

\* docker_client.containers.list(all=True, filters={'label': labels}): the
\* containers that carry every label of the filter (docker_util.py 99-123).
MatchesFilters(container, all, config, name) ==
    /\ container.labels["com.docker.compose.oneoff"] = "False"
    /\ "com.docker.compose.project" \in DOMAIN container.labels
    /\ ~all => container.labels["com.docker.compose.project"] = GetComposeName(config)
    /\ name # NoName => container.labels["com.docker.compose.service"] = name

\* docker_util.py 133-136: the env label, else the compose project with the
\* project name replaced by ''.
EnvOf(container, docker_name) ==
    LET env == Get(container.labels, "kubetools.project.env", <<>>)
    IN  IF env # <<>> THEN env
        ELSE Remove(container.labels["com.docker.compose.project"], docker_name)

\* The port list with the last host binding of each mapping.
PortsOfLastBinding(container) ==
    LET bound == SelectSeq(container.ports, LAMBDA m : m.host # <<>>)
    IN  [i \in 1..Len(bound) |->
            [local |-> bound[i].local, host |-> bound[i].host[Len(bound[i].host)]]]

\* docker_util.py 141-154
PortsOf(container) ==
    LET bound == SelectSeq(container.ports, LAMBDA m : m.host # <<>>)
    IN  [i \in 1..Len(bound) |-> [local |-> bound[i].local, host |-> bound[i].host[1]]]

\* docker_util.py 156-161
ContainerData(container) ==
    [up |-> IF container.status = "running" THEN "True" ELSE "False",
     ports |-> PortsOf(container),
     id |-> container.id,
     labels |-> container.labels]

\* A record stored whatever the environment already holds under the name.
StoreContainerOverwriting(map, env, name, container_data) ==
    [raised |-> FALSE,
     map |-> Put(map, env, Put(Get(map, env, EmptyDict), name, container_data))]

\* docker_util.py 163-170: setdefault, the duplicate check and the store.
StoreContainer(map, env, name, container_data) ==
    LET env_containers == Get(map, env, EmptyDict)
    IN  IF name \in DOMAIN env_containers
        THEN [raised |-> TRUE, map |-> Put(map, env, env_containers)]
        ELSE [raised |-> FALSE,
              map |-> Put(map, env, Put(env_containers, name, container_data))]

\* docker_util.py 180-184: the record of a declared container not seen live.
AbsentContainer == [up |-> "None", id |-> "None", ports |-> <<>>]

\* The flags copied only onto the records synthesized for absent containers.
MergeDeclaredAbsentOnly(containers, name, container) ==
    IF name \in DOMAIN containers THEN containers
    ELSE Put(containers, name,
             Put(Put(AbsentContainer,
                     "is_dependency", Get(container, "is_dependency", FALSE)),
                 "is_deployment", Get(container, "is_deployment", FALSE)))

\* docker_util.py 179-187: one declared container merged into one
\* environment's map.
MergeDeclared(containers, name, container) ==
    LET present == IF name \in DOMAIN containers THEN containers
                   ELSE Put(containers, name, AbsentContainer)
    IN  Put(present, name,
            Put(Put(present[name],
                    "is_dependency", Get(container, "is_dependency", FALSE)),
                "is_deployment", Get(container, "is_deployment", FALSE)))

\* docker_util.py 178-187: every declared container, in order.
RECURSIVE MergeAll(_, _)
MergeAll(containers, declared) ==
    IF declared = <<>> THEN containers
    ELSE MergeAll(MergeDeclared(containers, Head(declared).name,
                                Head(declared).container),
                  Tail(declared))

\* The current environment not added when it has no live container.
WithCurrentEnvSkipped(map, current_env) == map

\* docker_util.py 172-175
WithCurrentEnv(map, current_env) ==
    IF current_env \notin DOMAIN map THEN Put(map, current_env, EmptyDict) ELSE map

\* -------------------------------- get_containers_status: the function
StatusInit ==
    /\ st_pc = "list"
    /\ \E env \in Envs, declared \in DeclaredContainers :
         kubetools_config = [name |-> DockerName, env |-> env, containers |-> declared]
    /\ container_name \in {NoName, <<"w">>}
    /\ all_environments \in BOOLEAN
    /\ docker_world \in {w \in SeqsUpTo(ContainerPool, MaxContainers) :
                           \A i, j \in 1..Len(w) : w[i] = w[j] => i = j}
    /\ docker_containers = <<>>
    /\ st_i = 1
    /\ env_to_containers = EmptyDict
    /\ st_result = EmptyDict
    /\ st_error = NoError

\* docker_util.py 97-126
ListContainers ==
    /\ st_pc = "list"
    /\ UNCHANGED not_status
    /\ docker_containers' =
         SelectSeq(docker_world,
                   LAMBDA c : MatchesFilters(c, all_environments, kubetools_config,
                                             container_name))
    /\ st_pc' = "loop"
    /\ UNCHANGED <<kubetools_config, container_name, all_environments, docker_world,
                   st_i, env_to_containers, st_result, st_error>>

\* docker_util.py 128-170: one iteration of the loop over docker_containers.
ProcessContainer ==
    /\ st_pc = "loop"
    /\ UNCHANGED not_status
    /\ st_i <= Len(docker_containers)
    /\ LET container == docker_containers[st_i]
           compose_project == container.labels["com.docker.compose.project"]
           docker_name == kubetools_config.name
           segments == Split(container.name, "_")
       IN  IF all_environments /\ ~StartsWith(compose_project, docker_name)
           THEN /\ st_i' = st_i + 1
                /\ UNCHANGED <<st_pc, env_to_containers, st_error>>
           ELSE IF Len(segments) < 2
           THEN /\ st_pc' = "raised"
                /\ st_error' = [exc |-> "IndexError"]
                /\ UNCHANGED <<st_i, env_to_containers>>
           ELSE LET stored == StoreContainer(env_to_containers,
                                             EnvOf(container, docker_name),
                                             segments[2], ContainerData(container))
                IN  /\ env_to_containers' = stored.map
                    /\ IF stored.raised
                       THEN /\ st_pc' = "raised"
                            /\ st_error' = [exc |-> "ValueError"]
                            /\ UNCHANGED st_i
                       ELSE /\ st_i' = st_i + 1
                            /\ UNCHANGED <<st_pc, st_error>>
    /\ UNCHANGED <<kubetools_config, container_name, all_environments, docker_world,
                   docker_containers, st_result>>

\* docker_util.py 172-175
EnsureCurrentEnv ==
    /\ st_pc = "loop"
    /\ UNCHANGED not_status
    /\ st_i > Len(docker_containers)
    /\ env_to_containers' = WithCurrentEnv(env_to_containers, kubetools_config.env)
    /\ st_pc' = "merge"
    /\ UNCHANGED <<kubetools_config, container_name, all_environments, docker_world,
                   docker_containers, st_i, st_result, st_error>>

\* docker_util.py 177-187
MergeDesired ==
    /\ st_pc = "merge"
    /\ UNCHANGED not_status
    /\ env_to_containers' =
         [env \in DOMAIN env_to_containers |->
            MergeAll(env_to_containers[env], kubetools_config.containers)]
    /\ st_pc' = "return"
    /\ UNCHANGED <<kubetools_config, container_name, all_environments, docker_world,
                   docker_containers, st_i, st_result, st_error>>

\* docker_util.py 189-191
Return ==
    /\ st_pc = "return"
    /\ UNCHANGED not_status
    /\ st_result' = IF all_environments THEN env_to_containers
                    ELSE Get(env_to_containers, kubetools_config.env, EmptyDict)
    /\ st_pc' = "returned"
    /\ UNCHANGED <<kubetools_config, container_name, all_environments, docker_world,
                   docker_containers, st_i, env_to_containers, st_error>>

StatusNext ==
    \/ ListContainers
    \/ ProcessContainer
    \/ EnsureCurrentEnv
    \/ MergeDesired
    \/ Return

InitStatus ==
    StatusInit /\ RemoveIdle /\ RunIdle /\ DeployIdle /\ DevIdle /\ SettingsIdle

SpecStatus == InitStatus /\ [][StatusNext]_vars

\* -------------------------------- get_containers_status: the claims
\* The listed containers the loop does not skip and whose name it can split,
\* that are grouped under env with the logical name name.
LiveAt(env, name) ==
    {i \in 1..Len(docker_containers) :
        LET c == docker_containers[i]
        IN  /\ ~(all_environments
                 /\ ~StartsWith(c.labels["com.docker.compose.project"], DockerName))
            /\ Len(Split(c.name, "_")) >= 2
            /\ Split(c.name, "_")[2] = name
            /\ EnvOf(c, DockerName) = env}

Min(S) == CHOOSE x \in S : \A y \in S : x <= y

\* C5: with all_environments true, every environment of the returned map
\* holds an entry for every declared container, with the declaration's
\* is_dependency and is_deployment (False when undeclared); the entry of a
\* name with no live container there has up None, id None and no ports.
C5_DeclaredNeverLost ==
    (st_pc = "returned" /\ all_environments) =>
        \A env \in DOMAIN st_result :
            \A i \in 1..Len(kubetools_config.containers) :
                LET d == kubetools_config.containers[i]
                IN  /\ d.name \in DOMAIN st_result[env]
                    /\ "is_dependency" \in DOMAIN st_result[env][d.name]
                    /\ "is_deployment" \in DOMAIN st_result[env][d.name]
                    /\ st_result[env][d.name].is_dependency =
                            ("is_dependency" \in DOMAIN d.container
                                /\ d.container.is_dependency)
                    /\ st_result[env][d.name].is_deployment =
                            ("is_deployment" \in DOMAIN d.container
                                /\ d.container.is_deployment)
                    /\ LiveAt(env, d.name) = {} =>
                            /\ st_result[env][d.name].up = "None"
                            /\ st_result[env][d.name].id = "None"
                            /\ st_result[env][d.name].ports = <<>>

\* C5 witness: two environments returned, two containers declared, env d
\* with w live and b absent, env t with neither live.
C5_Witness ==
    /\ st_pc = "returned"
    /\ all_environments
    /\ Len(kubetools_config.containers) = 2
    /\ DOMAIN st_result = {<<"d">>, <<"t">>}
    /\ st_result[<<"d">>][<<"w">>].up = "True"
    /\ st_result[<<"d">>][<<"w">>].is_deployment
    /\ st_result[<<"d">>][<<"b">>].id = "None"
    /\ st_result[<<"d">>][<<"b">>].is_dependency
    /\ st_result[<<"t">>][<<"w">>].id = "None"

\* Two listed containers resolve to the same name in the same environment.
HasDuplicate ==
    \E i \in 1..Len(docker_containers) :
        LET c == docker_containers[i]
        IN  /\ Len(Split(c.name, "_")) >= 2
            /\ i \in LiveAt(EnvOf(c, DockerName), Split(c.name, "_")[2])
            /\ Cardinality(LiveAt(EnvOf(c, DockerName), Split(c.name, "_")[2])) >= 2

\* C6: two live containers with the same logical name in one environment
\* make get_containers_status fail and return no map; the record stored for
\* (environment, name) is the first one listed and is never replaced by a
\* later container, whatever the order of the listing.
C6_DuplicateIsError ==
    /\ (st_pc # "list" /\ HasDuplicate) =>
            /\ st_pc \in {"loop", "raised"}
            /\ st_result = EmptyDict
            /\ st_pc = "raised" => st_error.exc \in {"ValueError", "IndexError"}
    /\ \A env \in DOMAIN env_to_containers :
            \A name \in DOMAIN env_to_containers[env] :
                "labels" \in DOMAIN env_to_containers[env][name] =>
                    /\ LiveAt(env, name) # {}
                    /\ env_to_containers[env][name].id =
                            docker_containers[Min(LiveAt(env, name))].id

\* C6 witness: pd_w_2 listed before pd_w_1, both w in env d: ValueError, and
\* the record of pd_w_2 still stored.
C6_Witness ==
    /\ st_pc = "raised"
    /\ st_error.exc = "ValueError"
    /\ Len(docker_containers) = 2
    /\ docker_containers[1].id = "c3"
    /\ docker_containers[2].id = "c1"
    /\ env_to_containers[<<"d">>][<<"w">>].id = "c3"

\* C7: for every listing, the empty one included, the map returned with
\* all_environments true has the current environment as a key; with
\* all_environments false the current environment's sub-map is returned,
\* whose live records all come from containers of that environment.
C7_CurrentEnvPresent ==
    st_pc = "returned" =>
        /\ kubetools_config.env \in DOMAIN env_to_containers
        /\ all_environments => kubetools_config.env \in DOMAIN st_result
        /\ ~all_environments =>
                /\ st_result = env_to_containers[kubetools_config.env]
                /\ \A name \in DOMAIN st_result :
                     "labels" \in DOMAIN st_result[name] =>
                        \E i \in LiveAt(kubetools_config.env, name) :
                            docker_containers[i].id = st_result[name].id

\* C7 witness: containers exist, none of the current environment, and the
\* map of all environments is returned with the current environment in it.
C7_Witness ==
    /\ st_pc = "returned"
    /\ all_environments
    /\ kubetools_config.env = <<"t">>
    /\ kubetools_config.containers = <<>>
    /\ Len(docker_containers) = 2
    /\ DOMAIN st_result = {<<"d">>, <<"t">>}
    /\ st_result[<<"t">>] = EmptyDict

\* The string with one leading occurrence of the prefix removed.
StripPrefix(s, prefix) ==
    IF StartsWith(s, prefix) THEN SubSeq(s, Len(prefix) + 1, Len(s)) ELSE s

\* The listed container a stored live record was built from.
ContainerOf(record) ==
    CHOOSE i \in 1..Len(docker_containers) : docker_containers[i].id = record.id

\* C11: every live record is stored under its container's env label when
\* the label is present, otherwise under the compose project with only the
\* leading project name stripped and the remainder intact; its key within
\* the environment is the second '_'-delimited segment of the container name.
C11_EnvAndNameDerivation ==
    \A env \in DOMAIN env_to_containers :
        \A name \in DOMAIN env_to_containers[env] :
            LET record == env_to_containers[env][name]
            IN  "labels" \in DOMAIN record =>
                    /\ env = IF "kubetools.project.env" \in DOMAIN record.labels
                             THEN record.labels["kubetools.project.env"]
                             ELSE StripPrefix(
                                    record.labels["com.docker.compose.project"],
                                    DockerName)
                    /\ name = Split(docker_containers[ContainerOf(record)].name, "_")[2]

\* C11 case reached: ptp_b_1, which has no env label and compose project
\* "ptp", is returned under the environment "t" and not under "tp".
C11_InnerOccurrenceRemoved ==
    /\ st_pc = "returned"
    /\ all_environments
    /\ <<"t">> \in DOMAIN st_result
    /\ <<"t", "p">> \notin DOMAIN st_result
    /\ <<"b">> \in DOMAIN st_result[<<"t">>]
    /\ st_result[<<"t">>][<<"b">>].id = "c8"

\* A listed container the loop does not skip, that has no env label and
\* whose compose project is the project name alone.
NoEnvDerivable(container) ==
    /\ ~(all_environments
         /\ ~StartsWith(container.labels["com.docker.compose.project"], DockerName))
    /\ "kubetools.project.env" \notin DOMAIN container.labels
    /\ StripPrefix(container.labels["com.docker.compose.project"], DockerName) = <<>>

\* C12: a live container with no env label and nothing left of its compose
\* project after the project name makes get_containers_status fail: no
\* result is returned when one was listed, and no record is ever stored
\* under an empty environment key.
C12_IdentityErrorAborts ==
    /\ <<>> \notin DOMAIN env_to_containers
    /\ st_pc \in {"return", "returned"} =>
            \A i \in 1..Len(docker_containers) : ~NoEnvDerivable(docker_containers[i])

\* C12 case reached: p_w_1 was listed, the call returned, and its record is
\* in the result under the empty environment.
C12_StoredUnderEmptyEnv ==
    /\ st_pc = "returned"
    /\ st_error = NoError
    /\ \E i \in 1..Len(docker_containers) : NoEnvDerivable(docker_containers[i])
    /\ <<>> \in DOMAIN st_result
    /\ st_result[<<>>][<<"w">>].id = "c7"

\* The mappings of a container's port table that have a host binding.
BoundMappings(container) ==
    {i \in 1..Len(container.ports) : container.ports[i].host # <<>>}

\* C14: the port list of a live record has exactly one entry for each
\* mapping of the container's port table that has a host binding, with the
\* mapping's local port and its first bound host port, and no entry for a
\* mapping without a binding; an empty or missing table gives an empty list;
\* a running container with the single mapping 8000 -> 32000 is up with the
\* single entry (8000, 32000).
C14_PortsOfBoundMappings ==
    \A env \in DOMAIN env_to_containers :
        \A name \in DOMAIN env_to_containers[env] :
            LET record == env_to_containers[env][name]
            IN  "labels" \in DOMAIN record =>
                  LET container == docker_containers[ContainerOf(record)]
                  IN  /\ Len(record.ports) = Cardinality(BoundMappings(container))
                      /\ Range(record.ports) =
                            {[local |-> container.ports[i].local,
                              host |-> container.ports[i].host[1]] :
                                i \in BoundMappings(container)}
                      /\ container.ports = <<>> => record.ports = <<>>
                      /\ record.id = "c1" =>
                            /\ record.up = "True"
                            /\ record.ports =
                                <<[local |-> "8000/tcp", host |-> "32000"]>>

\* C14 witness: pd_w_1 (running, 8000 -> 32000) is returned as up with the
\* single port entry of its single mapping.
C14_Witness ==
    /\ st_pc = "returned"
    /\ ~all_environments
    /\ \E name \in DOMAIN st_result :
         /\ st_result[name].id = "c1"
         /\ st_result[name].up = "True"
         /\ st_result[name].ports = <<[local |-> "8000/tcp", host |-> "32000"]>>

\* ------------------------------------------------- run_process: the data
\* settings.py 25-26: the seconds between two checks and the number of
\* checks of the default budget.
WAIT_SLEEP_TIME == 3

WAIT_MAX_SLEEPS == 300 \div WAIT_SLEEP_TIME

\* settings.debug: off (False, 0) or a verbosity level.
DebugLevels == {0, 1, 2}

\* The lines a child writes, each a sequence of characters ending in a
\* newline: "a", "b" wrapped in an ANSI colour sequence, and a line that is
\* not valid UTF-8.
LinesPool ==
    { <<"a", "NL">>,
      <<"ESC", "[", "3", "m", "b", "NL">>,
      <<"xFF", "NL">> }

\* The exit status of a child that ends by itself or is killed from outside.
ExitCodes == {0, 2, -9}

SIGTERM == 15

SIGKILL == 9

\* bytes.decode(): fails on a byte sequence that is not UTF-8.
Decodable(line) == \A i \in 1..Len(line) : line[i] # "xFF"

\* str.strip('\n')
RECURSIVE StripNewlines(_)
StripNewlines(line) ==
    IF line = <<>> THEN line
    ELSE IF Head(line) = "NL" THEN StripNewlines(Tail(line))
    ELSE IF line[Len(line)] = "NL" THEN StripNewlines(SubSeq(line, 1, Len(line) - 1))
    ELSE line

\* The character classes of the regular expression
\* (\x9B|\x1B\[)[0-?]*[ -\/]*[@-~] over the model's characters.
ParameterBytes == {"3", ";"}

IntermediateBytes == {" "}

FinalBytes == {"a", "b", "m", "["}

\* The end of the longest run of characters of a class starting at i.
RECURSIVE SkipWhile(_, _, _)
SkipWhile(line, i, class) ==
    IF i <= Len(line) /\ line[i] \in class THEN SkipWhile(line, i + 1, class) ELSE i

\* re.sub(r'(\x9B|\x1B\[)[0-?]*[ -\/]*[@-~]', '', line)
RECURSIVE StripAnsi(_)
StripAnsi(line) ==
    IF line = <<>> THEN <<>>
    ELSE LET start == IF Head(line) = "x9B" THEN 2
                      ELSE IF Len(line) >= 2 /\ line[1] = "ESC" /\ line[2] = "[" THEN 3
                      ELSE 0
             final == SkipWhile(line, SkipWhile(line, start, ParameterBytes),
                                IntermediateBytes)
         IN  IF start # 0 /\ final <= Len(line) /\ line[final] \in FinalBytes
             THEN StripAnsi(SubSeq(line, final + 1, Len(line)))
             ELSE <<Head(line)>> \o StripAnsi(Tail(line))

\* '\n'.join(output_lines)
RECURSIVE Join(_)
Join(lines) ==
    IF lines = <<>> THEN <<>>
    ELSE IF Len(lines) = 1 THEN lines[1]
    ELSE lines[1] \o <<"NL">> \o Join(Tail(lines))

\* The mode chosen without regard to an explicit capture_output=False.
CapturingOutputIgnoringFalse(capture, debug_level) ==
    capture = "True" \/ debug_level = 0

\* docker_util.py 280-288
CapturingOutput(capture, debug_level) ==
    capture = "True" \/ (debug_level = 0 /\ capture # "False")

\* check_status that reports completion as long as no line is buffered.
CheckStatusDoneWhenSilent(alive, lines, previous) ==
    IF ~alive \/ lines = <<>> THEN None
    ELSE lines[Len(lines)]

\* docker_util.py 243-251: check_status
CheckStatus(alive, lines, previous) ==
    IF ~alive THEN None
    ELSE IF lines # <<>> THEN lines[Len(lines)]
    ELSE previous

\* The status wait_with_spinner hands to the first check_status call: the
\* empty string.
InitialStatus == <<>>

\* KubeDevCommandError('Compose command failed: {args}', output)
KubeDevCommandError(output) ==
    [how |-> "raised", exc |-> "KubeDevCommandError", args |-> "args", output |-> output]

\* str(e) of the OSError of a failed spawn
OSErrorText == <<"OSError">>

\* ------------------------------------------------- run_process: the function
RunInit ==
    /\ rp_pc = "start"
    /\ capture_output \in {"None", "True", "False"}
    /\ debug \in DebugLevels
    /\ rp_env \in {"None", "overrides"}
    /\ capturing_output = FALSE
    /\ child_state = "none"
    /\ child_env = "none"
    /\ child_stdout_open = FALSE
    /\ to_write \in SeqsUpTo(LinesPool, MaxLines)
    /\ exit_code = 0
    /\ written = <<>>
    /\ pipe = <<>>
    /\ reader_alive = FALSE
    /\ output_lines = <<>>
    /\ previous_status = InitialStatus
    /\ iterations = 0
    /\ returncode = <<>>
    /\ child_calls = <<>>
    /\ rp_stdout = None
    /\ rp_outcome = [how |-> "running"]

\* docker_util.py 278-296
ChooseMode ==
    /\ rp_pc = "start"
    /\ capturing_output' = CapturingOutput(capture_output, debug)
    /\ rp_pc' = IF capturing_output' THEN "popen_captured" ELSE "popen_inline"
    /\ UNCHANGED <<capture_output, debug, rp_env, child_state, child_env,
                   child_stdout_open, to_write, exit_code, pipe, reader_alive,
                   output_lines, previous_status, iterations, returncode,
                   child_calls, rp_stdout, rp_outcome>>
    /\ UNCHANGED written
    /\ UNCHANGED not_run

\* docker_util.py 225-241: the child is spawned through the shell with its
\* output on a pipe and the reader thread is started; or Popen raises OSError,
\* which run_process wraps (314-318).
SpawnCaptured ==
    /\ rp_pc = "popen_captured"
    /\ \E spawned \in BOOLEAN :
         IF spawned
         THEN /\ child_state' = "running"
              /\ child_env' = "inherited"
              /\ child_stdout_open' = TRUE
              /\ reader_alive' = TRUE
              /\ rp_pc' = "wait"
              /\ UNCHANGED rp_outcome
         ELSE /\ rp_outcome' = KubeDevCommandError(OSErrorText)
              /\ rp_pc' = "raised"
              /\ UNCHANGED <<child_state, child_env, child_stdout_open, reader_alive>>
    /\ UNCHANGED <<capture_output, debug, rp_env, capturing_output, to_write,
                   exit_code, pipe, output_lines, previous_status, iterations,
                   returncode, child_calls, rp_stdout>>
    /\ UNCHANGED written
    /\ UNCHANGED not_run

\* wait_with_spinner giving up one check later than its budget.
WaitWithSpinnerOneMore(status, made) ==
    IF status = None THEN "done"
    ELSE IF made >= MaxIterations THEN "timeout"
    ELSE "continue"

\* wait_with_spinner after one call of check_status: the status None ends
\* the wait; any other status is kept and the wait goes on, until the
\* iteration budget is used up and the wait raises its timeout error.
WaitWithSpinner(status, made) ==
    IF status = None THEN "done"
    ELSE IF made + 1 >= MaxIterations THEN "timeout"
    ELSE "continue"

\* docker_util.py 243-257: one check of the wait. The timeout error is
\* caught neither in _run_process_with_spinner nor in run_process.
WaitCheck ==
    /\ rp_pc = "wait"
    /\ LET status == CheckStatus(reader_alive, output_lines, previous_status)
           decision == WaitWithSpinner(status, iterations)
       IN  IF decision = "done"
           THEN /\ rp_pc' = "join"
                /\ UNCHANGED <<previous_status, iterations, rp_outcome>>
           ELSE IF decision = "timeout"
           THEN /\ rp_pc' = "raised"
                /\ rp_outcome' = [how |-> "raised", exc |-> "Timeout"]
                /\ iterations' = iterations + 1
                /\ UNCHANGED previous_status
           ELSE /\ previous_status' = status
                /\ iterations' = iterations + 1
                /\ UNCHANGED <<rp_pc, rp_outcome>>
    /\ UNCHANGED <<capture_output, debug, rp_env, capturing_output, child_state,
                   child_env, child_stdout_open, to_write, exit_code, pipe,
                   reader_alive, output_lines, returncode, child_calls, rp_stdout>>
    /\ UNCHANGED written
    /\ UNCHANGED not_run

\* docker_util.py 259-260
JoinOutput ==
    /\ rp_pc = "join"
    /\ rp_stdout' = Join(output_lines)
    /\ rp_pc' = "poll"
    /\ UNCHANGED <<capture_output, debug, rp_env, capturing_output, child_state,
                   child_env, child_stdout_open, to_write, exit_code, pipe,
                   reader_alive, output_lines, previous_status, iterations,
                   returncode, child_calls, rp_outcome>>
    /\ UNCHANGED written
    /\ UNCHANGED not_run

\* docker_util.py 262-263: poll() sets returncode if the child has exited.
Poll ==
    /\ rp_pc = "poll"
    /\ returncode' = IF child_state = "exited" THEN <<exit_code>> ELSE <<>>
    /\ rp_pc' = "terminate"
    /\ UNCHANGED <<capture_output, debug, rp_env, capturing_output, child_state,
                   child_env, child_stdout_open, to_write, exit_code, pipe,
                   reader_alive, output_lines, previous_status, iterations,
                   child_calls, rp_stdout, rp_outcome>>
    /\ UNCHANGED written
    /\ UNCHANGED not_run

\* Popen.terminate() / Popen.kill(): nothing is sent once returncode is set;
\* otherwise the signal is sent, after a poll in the Python versions whose
\* send_signal polls first; sending to an already-dead child may raise.
SendSignal(call, signal, at, next) ==
    /\ rp_pc = at
    /\ IF returncode # <<>>
       THEN /\ child_calls' = Append(child_calls,
                                     [call |-> call, sent |-> 0, raised |-> FALSE])
            /\ rp_pc' = next
            /\ UNCHANGED returncode
       ELSE \/ /\ child_state = "exited"
               /\ returncode' = <<exit_code>>
               /\ child_calls' = Append(child_calls,
                                        [call |-> call, sent |-> 0, raised |-> FALSE])
               /\ rp_pc' = next
            \/ /\ child_calls' = Append(child_calls,
                                        [call |-> call, sent |-> signal, raised |-> FALSE])
               /\ rp_pc' = next
               /\ UNCHANGED returncode
            \/ /\ child_state = "exited"
               /\ child_calls' = Append(child_calls,
                                        [call |-> call, sent |-> 0, raised |-> TRUE])
               \* docker_util.py 270-272: except Exception: pass
               /\ rp_pc' = "check_code"
               /\ UNCHANGED returncode
    /\ UNCHANGED <<capture_output, debug, rp_env, capturing_output, child_state,
                   child_env, child_stdout_open, to_write, exit_code, pipe,
                   reader_alive, output_lines, previous_status, iterations,
                   rp_stdout, rp_outcome>>
    /\ UNCHANGED written
    /\ UNCHANGED not_run

\* docker_util.py 267
Terminate == SendSignal("terminate", SIGTERM, "terminate", "kill")

\* docker_util.py 268
Kill == SendSignal("kill", SIGKILL, "kill", "check_code")

\* docker_util.py 302: the child is started with the env overrides and the
\* terminal as its output; or Popen raises OSError (314-318).
SpawnInline ==
    /\ rp_pc = "popen_inline"
    /\ \E spawned \in BOOLEAN :
         IF spawned
         THEN /\ child_state' = "running"
              /\ child_env' = IF rp_env = "None" THEN "inherited" ELSE rp_env
              /\ child_stdout_open' = TRUE
              /\ rp_pc' = "communicate"
              /\ UNCHANGED rp_outcome
         ELSE /\ rp_outcome' = KubeDevCommandError(OSErrorText)
              /\ rp_pc' = "raised"
              /\ UNCHANGED <<child_state, child_env, child_stdout_open>>
    /\ UNCHANGED <<capture_output, debug, rp_env, capturing_output, to_write,
                   exit_code, pipe, reader_alive, output_lines, previous_status,
                   iterations, returncode, child_calls, rp_stdout>>
    /\ UNCHANGED written
    /\ UNCHANGED not_run

\* docker_util.py 303-304: communicate() waits for the child; without a
\* pipe it gives None as stdout.
Communicate ==
    /\ rp_pc = "communicate"
    /\ child_state = "exited"
    /\ rp_stdout' = None
    /\ returncode' = <<exit_code>>
    /\ rp_pc' = "check_code"
    /\ UNCHANGED <<capture_output, debug, rp_env, capturing_output, child_state,
                   child_env, child_stdout_open, to_write, exit_code, pipe,
                   reader_alive, output_lines, previous_status, iterations,
                   child_calls, rp_outcome>>
    /\ UNCHANGED written
    /\ UNCHANGED not_run

\* docker_util.py 274, 297, 306-312: code > 0 raises KubeDevCommandError,
\* otherwise stdout is returned; with code None the comparison itself raises
\* TypeError, which the except clause (314) does not catch.
CheckCode ==
    /\ rp_pc = "check_code"
    /\ IF returncode = <<>>
       THEN /\ rp_outcome' = [how |-> "raised", exc |-> "TypeError"]
            /\ rp_pc' = "raised"
       ELSE IF returncode[1] > 0
       THEN /\ rp_outcome' = KubeDevCommandError(rp_stdout)
            /\ rp_pc' = "raised"
       ELSE /\ rp_outcome' = [how |-> "returned", stdout |-> rp_stdout]
            /\ rp_pc' = "returned"
    /\ UNCHANGED <<capture_output, debug, rp_env, capturing_output, child_state,
                   child_env, child_stdout_open, to_write, exit_code, pipe,
                   reader_alive, output_lines, previous_status, iterations,
                   returncode, child_calls, rp_stdout>>
    /\ UNCHANGED written
    /\ UNCHANGED not_run

\* The child writes its next line: to the pipe (captured) or the terminal.
ChildWrite ==
    /\ child_state = "running"
    /\ child_stdout_open
    /\ to_write # <<>>
    /\ to_write' = Tail(to_write)
    /\ written' = Append(written, Head(to_write))
    /\ pipe' = IF capturing_output THEN Append(pipe, Head(to_write)) ELSE pipe
    /\ UNCHANGED <<rp_pc, capture_output, debug, rp_env, capturing_output,
                   child_state, child_env, child_stdout_open, exit_code,
                   reader_alive, output_lines, previous_status, iterations,
                   returncode, child_calls, rp_stdout, rp_outcome>>
    /\ UNCHANGED not_run

\* The child closes its stdout and stderr and keeps running.
ChildCloseStdout ==
    /\ child_state = "running"
    /\ capturing_output
    /\ child_stdout_open
    /\ to_write = <<>>
    /\ child_stdout_open' = FALSE
    /\ UNCHANGED <<rp_pc, capture_output, debug, rp_env, capturing_output,
                   child_state, child_env, to_write, exit_code, pipe,
                   reader_alive, output_lines, previous_status, iterations,
                   returncode, child_calls, rp_stdout, rp_outcome>>
    /\ UNCHANGED written
    /\ UNCHANGED not_run

\* The child exits after its last line, or is killed from outside.
ChildExit ==
    /\ child_state = "running"
    /\ to_write = <<>>
    /\ \E code \in ExitCodes : exit_code' = code
    /\ child_state' = "exited"
    /\ child_stdout_open' = FALSE
    /\ UNCHANGED <<rp_pc, capture_output, debug, rp_env, capturing_output,
                   child_env, to_write, pipe, reader_alive, output_lines,
                   previous_status, iterations, returncode, child_calls,
                   rp_stdout, rp_outcome>>
    /\ UNCHANGED written
    /\ UNCHANGED not_run

\* The child dies of a signal terminate() or kill() sent.
ChildKilled ==
    /\ child_state = "running"
    /\ \E i \in 1..Len(child_calls) :
         /\ child_calls[i].sent # 0
         /\ exit_code' = 0 - child_calls[i].sent
    /\ child_state' = "exited"
    /\ child_stdout_open' = FALSE
    /\ UNCHANGED <<rp_pc, capture_output, debug, rp_env, capturing_output,
                   child_env, to_write, pipe, reader_alive, output_lines,
                   previous_status, iterations, returncode, child_calls,
                   rp_stdout, rp_outcome>>
    /\ UNCHANGED written
    /\ UNCHANGED not_run

\* docker_util.py 202-217: the reader thread reads one line, strips it and
\* appends it; a line that cannot be decoded ends the thread with its
\* UnicodeDecodeError.
ReaderRead ==
    /\ reader_alive
    /\ pipe # <<>>
    /\ pipe' = Tail(pipe)
    /\ IF Decodable(Head(pipe))
       THEN /\ output_lines' = Append(output_lines, StripAnsi(StripNewlines(Head(pipe))))
            /\ UNCHANGED reader_alive
       ELSE /\ reader_alive' = FALSE
            /\ UNCHANGED output_lines
    /\ UNCHANGED <<rp_pc, capture_output, debug, rp_env, capturing_output,
                   child_state, child_env, child_stdout_open, to_write, exit_code,
                   previous_status, iterations, returncode, child_calls,
                   rp_stdout, rp_outcome>>
    /\ UNCHANGED written
    /\ UNCHANGED not_run

\* docker_util.py 219-221: readline() returns nothing at end of stream and
\* the reader thread ends.
ReaderEOF ==
    /\ reader_alive
    /\ pipe = <<>>
    /\ ~child_stdout_open
    /\ reader_alive' = FALSE
    /\ UNCHANGED <<rp_pc, capture_output, debug, rp_env, capturing_output,
                   child_state, child_env, child_stdout_open, to_write, exit_code,
                   pipe, output_lines, previous_status, iterations, returncode,
                   child_calls, rp_stdout, rp_outcome>>
    /\ UNCHANGED written
    /\ UNCHANGED not_run

RunNext ==
    \/ ChooseMode
    \/ SpawnCaptured
    \/ WaitCheck
    \/ JoinOutput
    \/ Poll
    \/ Terminate
    \/ Kill
    \/ SpawnInline
    \/ Communicate
    \/ CheckCode
    \/ ChildWrite
    \/ ChildCloseStdout
    \/ ChildExit
    \/ ChildKilled
    \/ ReaderRead
    \/ ReaderEOF

InitRun ==
    RunInit /\ RemoveIdle /\ StatusIdle /\ DeployIdle /\ DevIdle /\ SettingsIdle

SpecRun == InitRun /\ [][RunNext]_vars

\* run_process with the main flow's wait loop scheduled again and again.
SpecRunFair == SpecRun /\ WF_vars(WaitCheck)

\* ------------------------------------------------- run_process: the claims
\* C8 (stated for the calls that end otherwise than by the wait's own
\* timeout): run_process ends either by returning the output, with an exit
\* code that is not strictly positive, or by raising KubeDevCommandError
\* with the arguments and the output or exception text, on an exit code
\* that is strictly positive or a failed spawn.
C8_TwoWaysToEnd ==
    /\ rp_pc = "returned" =>
            /\ returncode # <<>>
            /\ returncode[1] <= 0
            /\ rp_outcome = [how |-> "returned", stdout |-> rp_stdout]
    /\ (rp_pc = "raised" /\ rp_outcome.exc # "Timeout") =>
            /\ rp_outcome.exc = "KubeDevCommandError"
            /\ rp_outcome.args = "args"
            /\ \/ /\ child_state = "none"
                  /\ rp_outcome.output = OSErrorText
               \/ /\ returncode # <<>>
                  /\ returncode[1] > 0
                  /\ rp_outcome.output = rp_stdout

\* C8: a captured run whose wait ended with the whole output read ("a"),
\* whose child was still running at the poll, and which ended in TypeError.
C8_TypeErrorReached ==
    /\ capturing_output
    /\ rp_pc = "raised"
    /\ rp_outcome.exc = "TypeError"
    /\ returncode = <<>>
    /\ to_write = <<>>
    /\ pipe = <<>>
    /\ rp_stdout = <<"a">>
    /\ Len(child_calls) = 2

\* _run_process_with_spinner has stopped, by returning or by an exception
\* leaving it, with a child spawned.
SpinnerStopped ==
    /\ capturing_output
    /\ child_state # "none"
    /\ rp_pc \in {"check_code", "returned", "raised"}

\* C9: on every path by which _run_process_with_spinner stops, terminate
\* and then kill have been issued to the child (kill is not needed after
\* terminate raised on an already-dead child, an error that is ignored).
C9_ChildNeverLeftAlive ==
    SpinnerStopped =>
        \E i \in 1..Len(child_calls) :
            /\ child_calls[i].call = "terminate"
            /\ \/ child_calls[i].raised
               \/ \E j \in (i + 1)..Len(child_calls) : child_calls[j].call = "kill"

\* C9: the wait has raised its timeout and the run has ended with the child
\* running, the reader alive and neither terminate nor kill called.
C9_ChildLeftAlive ==
    /\ rp_pc = "raised"
    /\ rp_outcome.exc = "Timeout"
    /\ child_state = "running"
    /\ reader_alive
    /\ child_calls = <<>>

\* C10: the mode is a function of capture_output and settings.debug alone:
\* True captures and False runs inline whatever the debug state; unset
\* captures when debug is off and runs inline when it is on.
C10_ModeTable ==
    /\ rp_pc # "start" =>
            /\ capture_output = "True" => capturing_output
            /\ capture_output = "False" => ~capturing_output
            /\ capture_output = "None" => (capturing_output <=> debug = 0)
    /\ rp_pc \in {"popen_captured", "wait", "join", "poll", "terminate", "kill"} =>
            (capture_output = "True" \/ (capture_output = "None" /\ debug = 0))
    /\ rp_pc \in {"popen_inline", "communicate"} =>
            (capture_output = "False" \/ (capture_output = "None" /\ debug # 0))

\* C10 witness: capture_output unset with debug on, and the child run inline.
C10_Witness ==
    /\ capture_output = "None"
    /\ debug = 2
    /\ rp_pc = "communicate"
    /\ child_state = "exited"
    /\ pipe = <<>>

\* C19: a readiness wait always terminates: it ends successfully at the
\* first check that finds the condition satisfied (every check that counted
\* an iteration found it unsatisfied), and otherwise raises its timeout
\* after exactly the budgeted number of iterations; the default budget is
\* an interval of 3 and 100 iterations, 300 seconds.
C19_WaitTerminates ==
    /\ [](/\ iterations <= MaxIterations
          /\ rp_pc = "wait" => iterations < MaxIterations
          /\ (rp_outcome.how = "raised" /\ rp_outcome.exc = "Timeout") =>
                iterations = MaxIterations
          /\ WAIT_SLEEP_TIME = 3
          /\ WAIT_MAX_SLEEPS = 100
          /\ WAIT_SLEEP_TIME * WAIT_MAX_SLEEPS = 300)
    /\ [][(rp_pc = "wait" /\ iterations' # iterations) =>
            (reader_alive /\ iterations' = iterations + 1)]_vars
    /\ [][(rp_pc = "wait" /\ ~reader_alive /\ rp_pc' # rp_pc) => rp_pc' = "join"]_vars
    /\ (rp_pc = "wait") ~> (rp_pc \in {"join", "raised"})

\* C19 witness: a child that never writes and keeps its output open: every
\* check returned the previous status and the wait raised its timeout after
\* the budgeted number of iterations.
C19_Witness ==
    /\ rp_pc = "raised"
    /\ rp_outcome.exc = "Timeout"
    /\ iterations = MaxIterations
    /\ output_lines = <<>>
    /\ previous_status = InitialStatus
    /\ reader_alive

\* The statuses a check can be handed: the initial empty one, the one last
\* kept, and every line the child can write.
PreviousStatuses ==
    {InitialStatus, previous_status} \cup
    {StripAnsi(StripNewlines(line)) : line \in {l \in LinesPool : Decodable(l)}}

\* C20: for every interleaving of the reader thread and the waiting main
\* flow and every previous status, check_status returns None exactly when
\* the reader thread is no longer alive; while it is alive the value is the
\* last buffered line or, with nothing buffered, the previous status; and
\* the wait ends successfully only with the reader thread dead.
C20_ReaderDeadIsCompletion ==
    /\ [](\A previous \in PreviousStatuses :
            LET status == CheckStatus(reader_alive, output_lines, previous)
            IN  /\ status = None <=> ~reader_alive
                /\ (reader_alive /\ output_lines = <<>>) => status = previous
                /\ (reader_alive /\ output_lines # <<>>) =>
                        status = output_lines[Len(output_lines)])
    /\ [][(rp_pc = "wait" /\ rp_pc' = "join") => ~reader_alive]_vars

\* C20 witness: a check found the reader alive with nothing buffered and the
\* wait went on; the reader then finished and the wait ended.
C20_Witness ==
    /\ rp_pc = "join"
    /\ iterations >= 1
    /\ previous_status = InitialStatus
    /\ output_lines # <<>>
    /\ ~reader_alive

\* The lines the child wrote, each without its trailing newline and ANSI
\* escape sequences, joined by newlines.
WrittenOutput ==
    Join([i \in 1..Len(written) |-> StripAnsi(StripNewlines(written[i]))])

\* C21: the output a completed captured run returns (or carries in its
\* command error) is made of every line the child wrote up to the end of
\* its stream, in the order written, stripped and joined by newlines; the
\* buffer only grows, and it is joined with the reader thread finished.
C21_CapturedOutputComplete ==
    /\ (capturing_output /\ rp_pc = "returned") => rp_outcome.stdout = WrittenOutput
    /\ (capturing_output /\ rp_pc = "raised" /\ returncode # <<>>) =>
            rp_outcome.output = WrittenOutput
    /\ (capturing_output /\ rp_pc \in {"poll", "terminate", "kill", "check_code"}) =>
            /\ ~reader_alive
            /\ rp_stdout = Join(output_lines)

\* C21 case reached: the child wrote a line that is not UTF-8 and then the
\* line "a" and exited with 0; the reader thread ended at the first line and
\* the run returned an empty output.
C21_LinesLost ==
    /\ capturing_output
    /\ rp_pc = "returned"
    /\ Len(written) = 2
    /\ ~Decodable(written[1])
    /\ written[2] = <<"a", "NL">>
    /\ rp_outcome.stdout = <<>>
    /\ WrittenOutput # <<>>

\* C25: the env overrides given to run_process are the environment of the
\* spawned child in both modes: a child started in captured mode has the
\* environment a child started inline with the same arguments has.
C25_EnvOverridesInBothModes ==
    child_state # "none" =>
        child_env = IF rp_env = "None" THEN "inherited" ELSE rp_env

\* C25 case reached: run_process was given env overrides, ran the child in
\* captured mode, and the child has the inherited environment.
C25_OverridesDropped ==
    /\ capturing_output
    /\ rp_env = "overrides"
    /\ child_state = "running"
    /\ child_env = "inherited"

\* ------------------------------------------------- deploy: the command
\* get_object_name(obj) of the generated objects.
ObjectNames == {"web", "api"}

\* The identity of an object: its kind and name (one namespace per command).
Identity(object_type, name) == <<object_type, name>>

Identities == {Identity(t, n) : t \in Range(ObjectTypes), n \in ObjectNames}

\* The identities of the generated objects.
Desired ==
    UNION {{Identity(t, all_objects[t][i]) : i \in 1..Len(all_objects[t])} :
                t \in Range(ObjectTypes)}

KubeBuildError == [exc |-> "KubeBuildError"]

\* deploy.py 49-64, with what the loop over app_dirs (66-128) generates.
DeployInit ==
    /\ dp_pc = "generate"
    /\ dry \in BOOLEAN
    /\ \E s, d, j \in {q \in SeqsUpTo(ObjectNames, Cardinality(ObjectNames)) :
                            \A a, b \in 1..Len(q) : q[a] = q[b] => a = b} :
         /\ Len(s) + Len(d) + Len(j) <= MaxGenerated
         /\ all_objects = [Services |-> s, Deployments |-> d, Jobs |-> j]
    /\ observed \in {o \in SUBSET Identities : Cardinality(o) <= MaxObserved}
    /\ cluster = observed
    /\ cluster_calls = <<>>
    /\ dp_t = 1
    /\ dp_i = 1
    /\ prompted = <<>>
    /\ printed = <<>>
    /\ dp_error = NoError

\* deploy.py 66-128: the configs are loaded, the images ensured and the
\* objects generated for every app_dir, or one of these steps fails.
GenerateConfigs ==
    /\ dp_pc = "generate"
    /\ UNCHANGED not_deploy
    /\ \E built \in BOOLEAN :
         IF built
         THEN /\ dp_pc' = "choose"
              /\ UNCHANGED dp_error
         ELSE /\ dp_pc' = "raised"
              /\ dp_error' = KubeBuildError
    /\ UNCHANGED <<dry, all_objects, observed, cluster, cluster_calls, dp_t, dp_i,
                   prompted, printed>>

\* deploy_or_upgrade called whatever --dry says.
DeployFunctionIgnoringDry(is_dry) == "deploy_or_upgrade"

\* deploy.py 130
DeployFunction(is_dry) == IF is_dry THEN "_dry_deploy_loop" ELSE "deploy_or_upgrade"

\* deploy.py 130-136
CallDeployFunction ==
    /\ dp_pc = "choose"
    /\ UNCHANGED not_deploy
    /\ dp_pc' = DeployFunction(dry)
    /\ dp_t' = 1
    /\ dp_i' = 1
    /\ UNCHANGED <<dry, all_objects, observed, cluster, cluster_calls, prompted,
                   printed, dp_error>>

\* deploy.py 158-165: one iteration of the loop over the object types (or
\* its end); a type with no object is passed over.
DryDeployLoop ==
    /\ dp_pc = "_dry_deploy_loop"
    /\ UNCHANGED not_deploy
    /\ IF dp_t > Len(ObjectTypes)
       THEN /\ dp_pc' = "done"
            /\ UNCHANGED <<dp_t, prompted>>
       ELSE IF all_objects[ObjectTypes[dp_t]] # <<>>
       THEN /\ dp_pc' = "_dry_deploy_object_loop"
            /\ prompted' = Append(prompted, ObjectTypes[dp_t])
            /\ UNCHANGED dp_t
       ELSE /\ dp_t' = dp_t + 1
            /\ UNCHANGED <<dp_pc, prompted>>
    /\ UNCHANGED <<dry, all_objects, observed, cluster, cluster_calls, dp_i,
                   printed, dp_error>>

\* deploy.py 139-155: one prompt. The user names one of the objects, which
\* is printed, or takes the default 'exit', or closes the input (Abort).
DryDeployObjectLoop ==
    /\ dp_pc = "_dry_deploy_object_loop"
    /\ UNCHANGED not_deploy
    /\ LET name_to_object == Range(all_objects[ObjectTypes[dp_t]])
       IN  \E object_name \in name_to_object \cup {"exit", "abort"} :
             CASE object_name = "exit" ->
                    /\ dp_pc' = "_dry_deploy_loop"
                    /\ dp_t' = dp_t + 1
                    /\ UNCHANGED <<printed, dp_error>>
               [] object_name = "abort" ->
                    /\ dp_pc' = "raised"
                    /\ dp_error' = Abort
                    /\ UNCHANGED <<printed, dp_t>>
               [] OTHER ->
                    /\ Len(printed) < MaxPrints
                    /\ printed' = Append(printed,
                                         [object_type |-> ObjectTypes[dp_t],
                                          name |-> object_name])
                    /\ UNCHANGED <<dp_pc, dp_t, dp_error>>
    /\ UNCHANGED <<dry, all_objects, observed, cluster, cluster_calls, dp_i,
                   prompted>>

\* Every object submitted as a create.
SubmitAlwaysCreate(identity, existing) == "create"

\* deploy_or_upgrade for one object: an in-place update when an object with
\* the same identity exists server-side, a create otherwise.
Submit(identity, existing) == IF identity \in existing THEN "update" ELSE "create"

\* deploy_or_upgrade(build, services, deployments, jobs): one object
\* submitted (or the end of a type, or of the call), in the caller's order.
\* A failed call ends the command; what was applied before stays applied.
DeployOrUpgrade ==
    /\ dp_pc = "deploy_or_upgrade"
    /\ UNCHANGED not_deploy
    /\ IF dp_t > Len(ObjectTypes)
       THEN /\ dp_pc' = "done"
            /\ UNCHANGED <<dp_t, dp_i, cluster, cluster_calls, dp_error>>
       ELSE IF dp_i > Len(all_objects[ObjectTypes[dp_t]])
       THEN /\ dp_t' = dp_t + 1
            /\ dp_i' = 1
            /\ UNCHANGED <<dp_pc, cluster, cluster_calls, dp_error>>
       ELSE LET identity == Identity(ObjectTypes[dp_t],
                                     all_objects[ObjectTypes[dp_t]][dp_i])
                call == Submit(identity, cluster)
            IN  /\ cluster_calls' = Append(cluster_calls,
                                           [call |-> call, identity |-> identity])
                /\ \E applied \in BOOLEAN :
                     IF applied
                     THEN /\ cluster' = cluster \cup {identity}
                          /\ dp_i' = dp_i + 1
                          /\ UNCHANGED <<dp_pc, dp_error>>
                     ELSE /\ dp_pc' = "raised"
                          /\ dp_error' = ApiException
                          /\ UNCHANGED <<cluster, dp_i>>
                /\ UNCHANGED dp_t
    /\ UNCHANGED <<dry, all_objects, observed, prompted, printed>>

DeployNext ==
    \/ GenerateConfigs
    \/ CallDeployFunction
    \/ DryDeployLoop
    \/ DryDeployObjectLoop
    \/ DeployOrUpgrade

InitDeploy ==
    DeployInit /\ RemoveIdle /\ StatusIdle /\ RunIdle /\ DevIdle /\ SettingsIdle

SpecDeploy == InitDeploy /\ [][DeployNext]_vars

\* ------------------------------------------------- deploy: the claims
\* C17: with --dry nothing is submitted to the cluster: deploy_or_upgrade is
\* never entered, no create or update call is made and the cluster is left
\* as it was; the generated objects are only offered for printing, a prompt
\* being shown only for an object type that has a generated object, and only
\* generated objects are printed.
C17_DryRunSubmitsNothing ==
    /\ dry =>
        /\ dp_pc # "deploy_or_upgrade"
        /\ cluster_calls = <<>>
        /\ cluster = observed
    /\ \A i \in 1..Len(prompted) : all_objects[prompted[i]] # <<>>
    /\ \A i \in 1..Len(printed) :
         /\ printed[i].name \in Range(all_objects[printed[i].object_type])
         /\ printed[i].object_type \in Range(prompted)
    /\ (dry /\ dp_pc = "done") =>
         Range(prompted) = {t \in Range(ObjectTypes) : all_objects[t] # <<>>}

\* C17 witness: a dry run that ended, with a service and a job generated and
\* no deployment: the service was printed, the deployments were passed
\* over, and the cluster holds what it held.
C17_Witness ==
    /\ dry
    /\ dp_pc = "done"
    /\ all_objects.Services # <<>>
    /\ all_objects.Deployments = <<>>
    /\ all_objects.Jobs # <<>>
    /\ prompted = <<"Services", "Jobs">>
    /\ Len(printed) = 1
    /\ printed[1].object_type = "Services"
    /\ observed # {}
    /\ cluster = observed

\* The calls of deploy_or_upgrade that were applied: all but a failed last.
AppliedCalls ==
    IF dp_error = ApiException
    THEN SubSeq(cluster_calls, 1, Len(cluster_calls) - 1)
    ELSE cluster_calls

\* C18: with D the identities of the generated objects and O those the
\* cluster held, one deploy_or_upgrade call issues only creates and updates,
\* a create for an object of D \ O and an update for an object of D \cap O,
\* one call per object of D when it completes, and none for an object of
\* O \ D, which stays in the cluster; the objects applied before a failure
\* stay applied.
C18_CreateUpdateNeverTouch ==
    /\ \A i \in 1..Len(cluster_calls) :
         /\ cluster_calls[i].call \in {"create", "update"}
         /\ cluster_calls[i].identity \in Desired
         /\ cluster_calls[i].call = "create" <=> cluster_calls[i].identity \notin observed
         /\ cluster_calls[i].call = "update" <=> cluster_calls[i].identity \in observed
         /\ \A j \in 1..Len(cluster_calls) :
              cluster_calls[i].identity = cluster_calls[j].identity => i = j
    /\ (~dry /\ dp_pc = "done") =>
         /\ {c.identity : c \in {d \in Range(cluster_calls) : d.call = "create"}}
                = Desired \ observed
         /\ {c.identity : c \in {d \in Range(cluster_calls) : d.call = "update"}}
                = Desired \cap observed
    /\ observed \ Desired \subseteq cluster
    /\ cluster = observed \cup {c.identity : c \in Range(AppliedCalls)}

\* C18 witness: a create and an update were applied, the third call failed,
\* and an object of the cluster that was not generated is still there.
C18_Witness ==
    /\ ~dry
    /\ dp_pc = "raised"
    /\ dp_error = ApiException
    /\ Len(cluster_calls) = 3
    /\ cluster_calls[1].call = "create"
    /\ cluster_calls[2].call = "update"
    /\ cluster_calls[1].identity \in cluster
    /\ observed \ Desired # {}
    /\ cluster_calls[3].identity \notin cluster

\* ------------------------------------------------- up, test: the commands
\* settings.py 18
DEV_DEFAULT_ENV == "dev"

\* The names of the containers a kubetools configuration declares.
ContainerNames == {"web", "db"}

\* An upgrade of the configuration: the container find_container_for_config
\* resolves it to, and upgrade['conditions']['test'] when it is given.
UpgradePool ==
    { [container |-> "web", test |-> "unset"],
      [container |-> "web", test |-> "False"],
      [container |-> "db", test |-> "True"],
      [container |-> "db", test |-> "False"] }

\* A test of the configuration, with the container it is resolved to.
TestPool == { [container |-> "web"], [container |-> "db"] }

\* What the container_util calls are given as the environment: the 'env'
\* key of kubetools_config, when it has one.
EnvOfConfig(config) == Get(config, "env", "unset")

\* One call into container_util, with the environment of the config it is
\* given and, for run_container, the loop position and the container.
Call(call, config, i, container) ==
    [call |-> call, env |-> EnvOfConfig(config), i |-> i, container |-> container]

\* The exception a failed call raises.
Raised(call) == [exc |-> "raised", call |-> call]

\* kubetools_config as the dev commands receive it.
DevConfig(env, declared, upgrades, tests) ==
    LET config == [k \in {"containers", "upgrades", "tests"} |->
                      CASE k = "containers" -> declared
                        [] k = "upgrades" -> upgrades
                        [] k = "tests" -> tests]
    IN  IF env = "unset" THEN config
        ELSE [k \in {"containers", "upgrades", "tests", "env"} |->
                  IF k = "env" THEN env ELSE config[k]]

\* The command line of `up` (117-122: is_testing is no option and stays
\* False) or of `test` (208), with the configuration loaded for it.
DevInit ==
    /\ ev_command \in {"up", "test"}
    /\ ev_pc = IF ev_command = "up" THEN "up_status" ELSE "test_env"
    /\ \E env \in {"unset", DEV_DEFAULT_ENV, "ci"},
          declared \in SUBSET ContainerNames,
          upgrades \in SeqsUpTo(UpgradePool, MaxUpgrades),
          tests \in SeqsUpTo(TestPool, MaxTests) :
         /\ \A i \in 1..Len(upgrades) : upgrades[i].container \in declared
         /\ \A i \in 1..Len(tests) : tests[i].container \in declared
         /\ ev_command = "up" => tests = <<>>
         /\ dev_config = DevConfig(env, declared, upgrades, tests)
    /\ named_containers \in IF ev_command = "up" THEN SUBSET ContainerNames ELSE {{}}
    /\ no_upgrade \in IF ev_command = "up" THEN BOOLEAN ELSE {FALSE}
    /\ is_testing = FALSE
    /\ keep_containers \in IF ev_command = "test" THEN BOOLEAN ELSE {FALSE}
    /\ upgrade_containers = {}
    /\ ev_i = 1
    /\ dev_calls = <<>>
    /\ ev_failed = FALSE
    /\ ev_error = NoError

\* An exception leaves up() or the body of test's try block: under `test`
\* it is handled by the except and finally clauses (260-269), otherwise it
\* ends the command.
Fails(call) ==
    /\ ev_error' = Raised(call)
    /\ IF ev_command = "test"
       THEN /\ ev_pc' = "test_finally"
            /\ ev_failed' = TRUE
       ELSE /\ ev_pc' = "raised"
            /\ UNCHANGED ev_failed

\* environment.py 130-139
UpgradeContainers(disabled, named, container_statuses) ==
    IF disabled THEN {}
    ELSE IF named # {} THEN named
    ELSE container_statuses

\* environment.py 127-139: the statuses map holds every declared container.
UpGetStatus ==
    /\ ev_pc = "up_status"
    /\ UNCHANGED not_dev
    /\ dev_calls' = Append(dev_calls, Call("get_containers_status", dev_config, 0, "all"))
    /\ \E ok \in BOOLEAN :
         IF ok
         THEN /\ upgrade_containers' =
                    UpgradeContainers(no_upgrade, named_containers,
                                      dev_config["containers"])
              /\ ev_pc' = "up_build"
              /\ UNCHANGED <<ev_failed, ev_error>>
         ELSE /\ Fails("get_containers_status")
              /\ UNCHANGED upgrade_containers
    /\ UNCHANGED <<ev_command, dev_config, named_containers, no_upgrade, is_testing,
                   keep_containers, ev_i>>

\* One container_util call of up() that changes nothing else.
UpCall(call, at, next) ==
    /\ ev_pc = at
    /\ UNCHANGED not_dev
    /\ dev_calls' = Append(dev_calls, Call(call, dev_config, 0, "all"))
    /\ \E ok \in BOOLEAN :
         IF ok
         THEN /\ ev_pc' = next
              /\ UNCHANGED <<ev_failed, ev_error>>
         ELSE Fails(call)
    /\ ev_i' = 1
    /\ UNCHANGED <<ev_command, dev_config, named_containers, no_upgrade, is_testing,
                   keep_containers, upgrade_containers>>

\* environment.py 141-144
UpBuild == UpCall("build_containers", "up_build", "up_start")

\* environment.py 146-153
UpStart ==
    UpCall("up_containers", "up_start",
           IF upgrade_containers # {} THEN "up_upgrades" ELSE "up_print")

\* environment.py 157
ApplyWhenTesting(upgrade) == upgrade.test # "False"

\* An upgrade run under `test` whatever its conditions say.
RunsUpgradeWhateverConditions(upgrade, testing, named, upgrade_names) ==
    ~(named # {} /\ upgrade.container \notin upgrade_names)

\* environment.py 157-166: the upgrade is not passed over.
RunsUpgrade(upgrade, testing, named, upgrade_names) ==
    /\ ~(testing /\ ~ApplyWhenTesting(upgrade))
    /\ ~(named # {} /\ upgrade.container \notin upgrade_names)

\* environment.py 153-181: one iteration of the loop over the upgrades (or
\* its end).
UpUpgrade ==
    /\ ev_pc = "up_upgrades"
    /\ UNCHANGED not_dev
    /\ LET upgrades == dev_config["upgrades"]
       IN  IF ev_i > Len(upgrades)
           THEN /\ ev_pc' = "up_print"
                /\ UNCHANGED <<ev_i, dev_calls, ev_failed, ev_error>>
           ELSE IF ~RunsUpgrade(upgrades[ev_i], is_testing, named_containers,
                                upgrade_containers)
           THEN /\ ev_i' = ev_i + 1
                /\ UNCHANGED <<ev_pc, dev_calls, ev_failed, ev_error>>
           ELSE /\ dev_calls' = Append(dev_calls,
                                       Call("run_upgrade", dev_config, ev_i,
                                            upgrades[ev_i].container))
                /\ \E ok \in BOOLEAN :
                     IF ok
                     THEN /\ ev_i' = ev_i + 1
                          /\ UNCHANGED <<ev_pc, ev_failed, ev_error>>
                     ELSE /\ Fails("run_upgrade")
                          /\ UNCHANGED ev_i
    /\ UNCHANGED <<ev_command, dev_config, named_containers, no_upgrade, is_testing,
                   keep_containers, upgrade_containers>>

\* environment.py 183-196; under `test` up() then returns into the try
\* block (226-229).
UpPrint ==
    UpCall("print_containers", "up_print",
           IF ev_command = "test" THEN "test_tests" ELSE "done")

\* The environment switched only when the config names the default one.
TestEnvOnlyWhenNamed(config) ==
    IF "env" \in DOMAIN config /\ config["env"] = DEV_DEFAULT_ENV
    THEN Put(config, "env", "test")
    ELSE config

\* environment.py 217-221
TestEnv(config) ==
    IF Get(config, "env", DEV_DEFAULT_ENV) = DEV_DEFAULT_ENV
    THEN Put(config, "env", "test")
    ELSE config

\* environment.py 217-224: the env is set and up is invoked with
\* is_testing=True and its other parameters at their defaults.
TestInvokeUp ==
    /\ ev_pc = "test_env"
    /\ UNCHANGED not_dev
    /\ dev_config' = TestEnv(dev_config)
    /\ is_testing' = TRUE
    /\ ev_pc' = "up_status"
    /\ UNCHANGED <<ev_command, named_containers, no_upgrade, keep_containers,
                   upgrade_containers, ev_i, dev_calls, ev_failed, ev_error>>

\* environment.py 229-232
TestCheckTests ==
    /\ ev_pc = "test_tests"
    /\ UNCHANGED not_dev
    /\ IF dev_config["tests"] = <<>>
       THEN /\ ev_error' = [exc |-> "KubeDevError", call |-> "none"]
            /\ ev_failed' = TRUE
            /\ ev_pc' = "test_finally"
       ELSE /\ ev_pc' = "test_run"
            /\ UNCHANGED <<ev_failed, ev_error>>
    /\ ev_i' = 1
    /\ UNCHANGED <<ev_command, dev_config, named_containers, no_upgrade, is_testing,
                   keep_containers, upgrade_containers, dev_calls>>

\* environment.py 234-265: one iteration of the loop over the tests (or
\* its end, 'Tests complete').
TestRun ==
    /\ ev_pc = "test_run"
    /\ UNCHANGED not_dev
    /\ LET tests == dev_config["tests"]
       IN  IF ev_i > Len(tests)
           THEN /\ ev_pc' = "test_finally"
                /\ UNCHANGED <<ev_i, dev_calls, ev_failed, ev_error>>
           ELSE /\ dev_calls' = Append(dev_calls,
                                       Call("run_test", dev_config, ev_i,
                                            tests[ev_i].container))
                /\ \E ok \in BOOLEAN :
                     IF ok
                     THEN /\ ev_i' = ev_i + 1
                          /\ UNCHANGED <<ev_pc, ev_failed, ev_error>>
                     ELSE /\ Fails("run_test")
                          /\ UNCHANGED ev_i
    /\ UNCHANGED <<ev_command, dev_config, named_containers, no_upgrade, is_testing,
                   keep_containers, upgrade_containers>>

\* destroy invoked only after a run without exception.
DestroysOnSuccessOnly(keep, failed) == ~keep /\ ~failed

\* environment.py 267-268
Destroys(keep, failed) == ~keep

\* environment.py 260-269: the finally clause, after which the exception
\* that left the try block, if any, goes on to the caller; an exception of
\* destroy itself takes its place.
TestFinally ==
    /\ ev_pc = "test_finally"
    /\ UNCHANGED not_dev
    /\ IF Destroys(keep_containers, ev_failed)
       THEN /\ dev_calls' = Append(dev_calls,
                                   Call("destroy_containers", dev_config, 0, "all"))
            /\ \E ok \in BOOLEAN :
                 IF ok
                 THEN /\ ev_pc' = IF ev_failed THEN "raised" ELSE "done"
                      /\ UNCHANGED ev_error
                 ELSE /\ ev_pc' = "raised"
                      /\ ev_error' = Raised("destroy_containers")
       ELSE /\ ev_pc' = IF ev_failed THEN "raised" ELSE "done"
            /\ UNCHANGED <<dev_calls, ev_error>>
    /\ UNCHANGED <<ev_command, dev_config, named_containers, no_upgrade, is_testing,
                   keep_containers, upgrade_containers, ev_i, ev_failed>>

DevNext ==
    \/ UpGetStatus
    \/ UpBuild
    \/ UpStart
    \/ UpUpgrade
    \/ UpPrint
    \/ TestInvokeUp
    \/ TestCheckTests
    \/ TestRun
    \/ TestFinally

InitDev ==
    DevInit /\ RemoveIdle /\ StatusIdle /\ RunIdle /\ DeployIdle /\ SettingsIdle

SpecDev == InitDev /\ [][DevNext]_vars

\* ------------------------------------------------- up, test: the claims
\* The positions in dev_calls of the calls of one kind.
CallsOf(call) == {k \in 1..Len(dev_calls) : dev_calls[k].call = call}

\* The command has ended.
Ended == ev_pc \in {"done", "raised"}

\* C22: a run of `test` that has ended, with the tests complete, with up or
\* a test raising, or with no test configured, has invoked destroy exactly
\* once, as its last call, unless --keep-containers was given, and then
\* never; a run in which an exception left the try block ends with an
\* exception, the same one unless destroy itself raised.
C22_TestDestroysAfterwards ==
    ev_command = "test" =>
        /\ keep_containers => CallsOf("destroy_containers") = {}
        /\ CallsOf("destroy_containers") \subseteq {Len(dev_calls)}
        /\ CallsOf("destroy_containers") # {} => Ended
        /\ (Ended /\ ~keep_containers) =>
                CallsOf("destroy_containers") = {Len(dev_calls)}
        /\ (Ended /\ ev_failed) =>
                /\ ev_pc = "raised"
                /\ ev_error # NoError
                /\ ev_error.call = "destroy_containers" =>
                        dev_calls[Len(dev_calls)].call = "destroy_containers"
        /\ ev_pc = "done" => (~ev_failed /\ ev_error = NoError)

\* C22 witness: build_containers raised inside up under `test`; destroy was
\* invoked after it and the exception of build_containers reached the caller.
C22_Witness ==
    /\ ev_command = "test"
    /\ ~keep_containers
    /\ ev_pc = "raised"
    /\ ev_error = Raised("build_containers")
    /\ Len(dev_calls) = 3
    /\ dev_calls[2].call = "build_containers"
    /\ dev_calls[3].call = "destroy_containers"

EligibleUpgrades ==
    {i \in 1..Len(dev_config["upgrades"]) :
        /\ ~no_upgrade
        /\ named_containers = {} \/ dev_config["upgrades"][i].container \in named_containers
        /\ ~is_testing \/ dev_config["upgrades"][i].test # "False"}

\* C24: up runs an upgrade only if upgrades are not disabled, no container
\* was named or its container is among the named ones, and up is not under
\* `test` or the upgrade's conditions allow testing; an up that got through
\* its upgrades has run every such upgrade; the upgrades run in
\* configuration order, after the build and the start of the containers.
C24_UpgradesRun ==
    /\ \A k \in CallsOf("run_upgrade") :
         /\ dev_calls[k].i \in EligibleUpgrades
         /\ dev_calls[k].container = dev_config["upgrades"][dev_calls[k].i].container
         /\ \E b \in CallsOf("build_containers"), u \in CallsOf("up_containers") :
                b < u /\ u < k
         /\ \A l \in CallsOf("run_upgrade") : k < l => dev_calls[k].i < dev_calls[l].i
    /\ CallsOf("print_containers") # {} =>
         {dev_calls[k].i : k \in CallsOf("run_upgrade")} = EligibleUpgrades

\* C24 witness: up under `test` with two upgrades, the first with
\* conditions.test false: only the second was run.
C24_Witness ==
    /\ ev_command = "test"
    /\ is_testing
    /\ Len(dev_config["upgrades"]) = 2
    /\ dev_config["upgrades"][1].test = "False"
    /\ CallsOf("print_containers") # {}
    /\ {dev_calls[k].i : k \in CallsOf("run_upgrade")} = {2}

\* ------------------------------------------------- get_settings
\* The debug argument of a call: not given, True or False.
DebugArguments == {"default", "True", "False"}

\* settings.py 38: def _get_settings(debug=False)
DebugOf(argument) == argument = "True"

\* settings.py 38-65: _get_settings builds a new KubetoolsSettings with the
\* debug flag and, when the settings file exists, the options of its
\* [kubetools] section; a file without that section makes
\* parser.options raise.
GetSettingsUncached(argument, file, id) ==
    IF file = "no_section" THEN [raised |-> TRUE, settings |-> EmptyDict]
    ELSE [raised |-> FALSE,
          settings |-> [id |-> id, debug |-> DebugOf(argument),
                        loaded |-> (file = "valid")]]

\* memoize's own cache key: one entry for each different argument list.
ResolverByArguments(argument) == argument

\* settings.py 74: resolver=lambda *args, **kwargs: 'settings'
Resolver(argument) == "settings"

\* The state of a process that calls get_settings.
SettingsInit ==
    /\ gs_pc = "running"
    /\ settings_file \in {"absent", "valid", "no_section"}
    /\ cache = EmptyDict
    /\ constructed = 0
    /\ gs_calls = <<>>

\* settings.py 68-75: one call of the memoized get_settings: the function is
\* called when the key is not cached yet and its result cached; the cached
\* value is returned. An exception of the function leaves the call (and the
\* command) with nothing cached.
GetSettings ==
    /\ gs_pc = "running"
    /\ UNCHANGED not_settings
    /\ Len(gs_calls) < MaxCalls
    /\ \E argument \in DebugArguments :
         LET key == Resolver(argument)
             made == GetSettingsUncached(argument, settings_file, constructed + 1)
         IN  IF key \in DOMAIN cache
             THEN /\ gs_calls' = Append(gs_calls, [argument |-> argument,
                                                   result |-> cache[key]])
                  /\ UNCHANGED <<gs_pc, cache, constructed>>
             ELSE IF made.raised
             THEN /\ gs_pc' = "raised"
                  /\ UNCHANGED <<cache, constructed, gs_calls>>
             ELSE /\ cache' = Put(cache, key, made.settings)
                  /\ constructed' = constructed + 1
                  /\ gs_calls' = Append(gs_calls, [argument |-> argument,
                                                   result |-> made.settings])
                  /\ UNCHANGED gs_pc
    /\ UNCHANGED settings_file

\* The user writes, repairs or removes the settings file while the process
\* runs.
ChangeSettingsFile ==
    /\ gs_pc = "running"
    /\ UNCHANGED not_settings
    /\ \E file \in {"absent", "valid", "no_section"} :
         /\ file # settings_file
         /\ settings_file' = file
    /\ UNCHANGED <<gs_pc, cache, constructed, gs_calls>>

SettingsNext ==
    \/ GetSettings
    \/ ChangeSettingsFile

InitSettings ==
    SettingsInit /\ RemoveIdle /\ StatusIdle /\ RunIdle /\ DeployIdle /\ DevIdle

SpecSettings == InitSettings /\ [][SettingsNext]_vars

\* C26: after any sequence of calls with any arguments the settings have
\* been constructed at most once, by the first call, and every call has
\* returned that one object, whose debug value is the one the first call
\* gave, whatever the later calls passed.
C26_SettingsSingleton ==
    /\ constructed <= 1
    /\ gs_calls # <<>> => constructed = 1
    /\ \A i \in 1..Len(gs_calls) :
         /\ gs_calls[i].result = gs_calls[1].result
         /\ gs_calls[i].result.id = 1
         /\ gs_calls[i].result.debug = DebugOf(gs_calls[1].argument)

\* C26 witness: the first call gave debug=True, the settings file appeared
\* afterwards, and two later calls, one of them with debug=False, returned
\* the settings of the first call.
C26_Witness ==
    /\ Len(gs_calls) = 3
    /\ gs_calls[1].argument = "True"
    /\ gs_calls[2].argument = "default"
    /\ gs_calls[3].argument = "False"
    /\ settings_file = "valid"
    /\ ~gs_calls[3].result.loaded
    /\ gs_calls[3].result.debug

====
